---------------------------- MODULE Spec2Model ----------------------------
(***************************************************************************)
(* Face-metrics derivation of the offline analyze-faces scripts.           *)
(*                                                                         *)
(* Numbers.  The scripts compute with binary doubles; the model computes   *)
(* with decimal fixed point, each quantity an integer count of its unit:   *)
(*   landmark x, y, z          1e-5   (CoordUnit per 1.0)                  *)
(*   visibility, presence,     1e-4   (ConfUnit per 1.0)                   *)
(*     detection score                                                     *)
(*   transform matrix entries  1e-7   (MatUnit per 1.0)                    *)
(*   unrounded distances       1e-7   (DistUnit per 1.0)                   *)
(*   unrounded angles          1e-4 degree (AngleUnit per degree)          *)
(* A value rounded to p decimals is an integer count of 10^-p.             *)
(* Effects below these resolutions show only in the way a decimal half-way *)
(* value is rounded: the double nearest to it lies above it, below it, or  *)
(* (for a dyadic value) on it, where Python rounds half to even.  The      *)
(* variable tie_mode says which of the three holds in a run.               *)
(***************************************************************************)
EXTENDS Integers, Sequences, FiniteSets, TLC

CoordUnit == 10^5
ConfUnit  == 10^4
MatUnit   == 10^7
DistUnit  == 10^7
AngleUnit == 10^4

None == "None"

Abs(n) == IF n < 0 THEN -n ELSE n
Max2(a, b) == IF a >= b THEN a ELSE b
Min2(a, b) == IF a <= b THEN a ELSE b

SetMax(S) == CHOOSE m \in S : \A e \in S : e <= m

(* max(xs) and min(xs) of a non-empty list of numbers.                      *)
RECURSIVE SeqMaxIn(_, _, _)
SeqMaxIn(xs, lo, hi) ==
    IF lo = hi THEN xs[lo]
    ELSE LET mid == (lo + hi) \div 2
         IN  Max2(SeqMaxIn(xs, lo, mid), SeqMaxIn(xs, mid + 1, hi))

RECURSIVE SeqMinIn(_, _, _)
SeqMinIn(xs, lo, hi) ==
    IF lo = hi THEN xs[lo]
    ELSE LET mid == (lo + hi) \div 2
         IN  Min2(SeqMinIn(xs, lo, mid), SeqMinIn(xs, mid + 1, hi))

SeqMax(xs) == SeqMaxIn(xs, 1, Len(xs))
SeqMin(xs) == SeqMinIn(xs, 1, Len(xs))

TieModes == {"even", "up", "down"}

(* round(n / d) to the nearest integer; a half-way value goes as tie says. *)
RoundDivFloor(n, d, tie) == n \div d

RoundDiv(n, d, tie) ==
    LET q == n \div d
        r == n % d
    IN  IF 2 * r < d THEN q
        ELSE IF 2 * r > d THEN q + 1
        ELSE IF tie = "up" THEN q + 1
        ELSE IF tie = "down" THEN q
        ELSE IF q % 2 = 0 THEN q ELSE q + 1

(***************************************************************************)
(* np.sqrt of a sum of squares, rounded down to the result unit.  The sum  *)
(* does not fit a 32-bit integer, so it is kept as base-100 digit pairs    *)
(* and the root is taken by the long-hand (digit by digit) method.         *)
(***************************************************************************)
Limb == 10^4

RECURSIVE DigitPairs(_)
DigitPairs(n) ==
    IF n < 100 THEN <<n>> ELSE Append(DigitPairs(n \div 100), n % 100)

(* The base-100 digits of d1^2 + d2^2 + d3^2.                              *)
SumSquaresPairs(d1, d2, d3) ==
    LET hi(d) == Abs(d) \div Limb
        lo(d) == Abs(d) % Limb
        l0 == lo(d1) * lo(d1) + lo(d2) * lo(d2) + lo(d3) * lo(d3)
        l1 == 2 * hi(d1) * lo(d1) + 2 * hi(d2) * lo(d2) + 2 * hi(d3) * lo(d3)
                + l0 \div Limb
        l2 == hi(d1) * hi(d1) + hi(d2) * hi(d2) + hi(d3) * hi(d3)
                + l1 \div Limb
        c0 == l0 % Limb
        c1 == l1 % Limb
    IN  DigitPairs(l2) \o <<c1 \div 100, c1 % 100, c0 \div 100, c0 % 100>>

RECURSIVE SqrtPairs(_, _, _)
SqrtPairs(pairs, root, rem) ==
    IF pairs = <<>> THEN root
    ELSE LET r == rem * 100 + Head(pairs)
             d == SetMax({e \in 0..9 : (20 * root + e) * e <= r})
         IN  SqrtPairs(Tail(pairs), 10 * root + d, r - (20 * root + d) * d)

(* floor(sqrt(d1^2 + d2^2 + d3^2) * 10^digits)                             *)
SqrtSumSquares(d1, d2, d3, digits) ==
    SqrtPairs(SumSquaresPairs(d1, d2, d3) \o [i \in 1..digits |-> 0], 0, 0)

(***************************************************************************)
(* np.degrees(np.arctan2(y, x)) in AngleUnit, by CORDIC vectoring: the     *)
(* vector is turned onto the positive x axis in steps of atan(2^-i) and    *)
(* the steps are summed.  The axes and the diagonals are exact, as they    *)
(* are for the library function.                                           *)
(***************************************************************************)
CordicAngles ==
    <<45000000, 26565051, 14036243, 7125016, 3576334, 1789911, 895174,
      447614, 223811, 111906, 55953, 27976, 13988, 6994, 3497, 1749, 874,
      437, 219, 109, 55, 27, 14, 7, 3, 2>>

MicroPerAngleUnit == 10^6 \div AngleUnit

RECURSIVE ScaleUp(_, _)
ScaleUp(x, y) ==
    IF Max2(x, y) >= 2^27 THEN <<x, y>> ELSE ScaleUp(2 * x, 2 * y)

RECURSIVE CordicStep(_, _, _, _)
CordicStep(x, y, z, i) ==
    IF y = 0 \/ i > Len(CordicAngles) THEN z
    ELSE LET sx == x \div 2^(i - 1)
             sy == y \div 2^(i - 1)
         IN  IF y > 0
             THEN CordicStep(x + sy, y - sx, z + CordicAngles[i], i + 1)
             ELSE CordicStep(x - sy, y + sx, z - CordicAngles[i], i + 1)

(* atan(ay / ax) in micro-degrees for ax, ay >= 0, not both 0.            *)
AtanMicroDeg(ay, ax) ==
    IF ax = 0 THEN 90 * 10^6
    ELSE LET v == ScaleUp(ax, ay) IN CordicStep(v[1], v[2], 0, 1)

Atan2Deg(y, x) ==
    IF y = 0 THEN (IF x < 0 THEN 180 * AngleUnit ELSE 0)
    ELSE LET a == RoundDiv(AtanMicroDeg(Abs(y), Abs(x)), MicroPerAngleUnit, "even")
             b == IF x < 0 THEN 180 * AngleUnit - a ELSE a
         IN  IF y < 0 THEN -b ELSE b

(* np.degrees(np.arctan2(-v, x)): negating a zero gives the double -0.0,   *)
(* for which arctan2 returns -0.0 (x >= 0) or -180 degrees (x < 0).        *)
NegAtan2Deg(v, x) ==
    IF v = 0 THEN (IF x < 0 THEN -180 * AngleUnit ELSE 0)
    ELSE Atan2Deg(-v, x)

(* round(v, p) for v counted in 1/unit: the result counts 10^-p.           *)
(***************************************************************************)
(* Binary floating point.  Python floats are IEEE-754 binary64; where a    *)
(* result turns on the rounding of a single operation the model evaluates  *)
(* the same round-to-nearest-even operations at the width of binary16      *)
(* (SigBits significant bits, smallest step 2^-24), whose values fit the   *)
(* integers.  A float is the count of steps of 2^-24 it holds.             *)
(***************************************************************************)
SigBits == 11
FloatUnit == 2^24

RECURSIVE BitLen(_)
BitLen(n) == IF n = 0 THEN 0 ELSE 1 + BitLen(n \div 2)

(* The float nearest to (p + f) * 2^E steps, 0 <= f < 1, f > 0 iff sticky.  *)
FRound(p, E, sticky) ==
    LET drop == Max2(BitLen(p) - SigBits, -E)
    IN  IF drop <= 0 THEN p * 2^E
        ELSE LET q == p \div 2^drop
                 r == p % 2^drop
                 half == 2^(drop - 1)
                 up == r > half \/ (r = half /\ (sticky \/ q % 2 = 1))
             IN  (IF up THEN q + 1 ELSE q) * 2^(E + drop)

FRoundSigned(v, E) ==
    IF v < 0 THEN -FRound(-v, E, FALSE) ELSE FRound(v, E, FALSE)

FAdd(a, b) == FRoundSigned(a + b, 0)
FSub(a, b) == FRoundSigned(a - b, 0)

(* A float a is Mantissa(a) * 2^Exponent(a) steps.                         *)
Exponent(a) == Max2(BitLen(Abs(a)) - SigBits, 0)
Mantissa(a) == Abs(a) \div 2^Exponent(a)

(* One unit in the last place of a                                         *)
Ulp(a) == 2^Exponent(a)

FMul(a, b) ==
    LET product == FRound(Mantissa(a) * Mantissa(b),
                          Exponent(a) + Exponent(b) - 24, FALSE)
    IN  IF (a < 0) # (b < 0) THEN -product ELSE product

RECURSIVE IsqrtIn(_, _, _)
IsqrtIn(n, lo, hi) ==
    IF lo = hi THEN lo
    ELSE LET mid == (lo + hi + 1) \div 2
         IN  IF mid * mid <= n THEN IsqrtIn(n, mid, hi)
             ELSE IsqrtIn(n, lo, mid - 1)

Isqrt(n) == IsqrtIn(n, 0, 2^15)

FSqrt(a) ==
    IF a = 0 THEN 0
    ELSE LET t == (30 - BitLen(a)) \div 2
             n == a * 2^(2 * t)
             r == Isqrt(n)
         IN  FRound(r, 12 - t, r * r # n)

(* The float of the literal 0.t                                            *)
FloatOfTenths(t) ==
    FRound((t * 2^27) \div 10, -3, (t * 2^27) % 10 # 0)

Round(v, unit, p, tie) == RoundDiv(v, unit \div 10^p, tie)

(***************************************************************************)
(* face_metrics.py                                                         *)
(***************************************************************************)
NOSE_TIP       == 1
EYE_L_OUTER    == 33
EYE_R_OUTER    == 263
MOUTH_L_CORNER == 61
MOUTH_R_CORNER == 291
EYE_L_INNER    == 133
EYE_R_INNER    == 362
CHIN_TIP       == 152
OVAL_L         == 234
OVAL_R         == 454
FOREHEAD_TOP   == 10

(* A double that is not finite (nan, inf), as a visibility or presence.    *)
NonFinite == -(2^30)

(* SimpleLandmark(x, y, z, visibility, presence)                           *)
SimpleLandmark(x, y, z, visibility, presence) ==
    [x |-> x, y |-> y, z |-> z, visibility |-> visibility, presence |-> presence]

(* SimpleLandmark(x, y, z): the confidence fields take their defaults.     *)
SimpleLandmark3(x, y, z) == SimpleLandmark(x, y, z, ConfUnit, ConfUnit)

(* landmarks[i] of a Python list: indices start at 0.                      *)
At(landmarks, i) == landmarks[i + 1]

HasIndex(landmarks, i) == i + 1 <= Len(landmarks)

clamp_unitNoUpper(value) ==
    IF value = NonFinite THEN ConfUnit
    ELSE Max2(0, value)

clamp_unit(value) ==
    IF value = NonFinite THEN ConfUnit
    ELSE Max2(0, Min2(ConfUnit, value))

(* rmat[i, j] of np.array(struct.unpack("<16f", matrix_data))              *)
(*              .reshape(4, 4)[:3, :3]                                     *)
RmatShifted(matrix_data) ==
    [i \in 0..2 |-> [j \in 0..2 |-> matrix_data[4 * i + j + 2]]]

Rmat(matrix_data) == [i \in 0..2 |-> [j \in 0..2 |-> matrix_data[4 * i + j + 1]]]

(* 1e-6 *)
SINGULAR_EPS == MatUnit \div 10^6

get_euler_anglesSwapped(rmat) ==
    LET sy == SqrtSumSquares(rmat[0][0], rmat[1][0], 0, 0)
        singular == sy < SINGULAR_EPS
    IN  IF singular
        THEN [pitch |-> Atan2Deg(rmat[2][1], rmat[2][2]),
              yaw   |-> NegAtan2Deg(rmat[2][0], sy),
              roll  |-> Atan2Deg(rmat[1][0], rmat[0][0])]
        ELSE [pitch |-> NegAtan2Deg(rmat[1][2], rmat[1][1]),
              yaw   |-> NegAtan2Deg(rmat[2][0], sy),
              roll  |-> 0]

get_euler_angles(rmat) ==
    LET sy == SqrtSumSquares(rmat[0][0], rmat[1][0], 0, 0)
        singular == sy < SINGULAR_EPS
    IN  IF ~singular
        THEN [pitch |-> Atan2Deg(rmat[2][1], rmat[2][2]),
              yaw   |-> NegAtan2Deg(rmat[2][0], sy),
              roll  |-> Atan2Deg(rmat[1][0], rmat[0][0])]
        ELSE [pitch |-> NegAtan2Deg(rmat[1][2], rmat[1][1]),
              yaw   |-> NegAtan2Deg(rmat[2][0], sy),
              roll  |-> 0]

(* matrix_data: Optional[bytes].  None is [present |-> FALSE]; bytes hold  *)
(* the little-endian floats they pack, b"" holding none.                   *)
NoMatrix == [present |-> FALSE, floats |-> <<>>]
Bytes(floats) == [present |-> TRUE, floats |-> floats]

(* `if matrix_data:` *)
Truthy(matrix_data) == matrix_data.present /\ matrix_data.floats # <<>>

(* The 16 floats of a 4x4 transform, row by row: the rotation r (9 entries, *)
(* row by row) with a translation column.                                  *)
Mat16(r) ==
    <<r[1], r[2], r[3], 12345678,
      r[4], r[5], r[6], -2345678,
      r[7], r[8], r[9], -400000000,
      0, 0, 0, MatUnit>>

IdentityMatrix == Mat16(<<MatUnit, 0, 0, 0, MatUnit, 0, 0, 0, MatUnit>>)

(* The 4x4 identity                                                        *)
Identity4x4 ==
    [k \in 1..16 |-> IF (k - 1) \div 4 = (k - 1) % 4 THEN MatUnit ELSE 0]

(* np.sqrt((q.x - p.x) ** 2 + (q.y - p.y) ** 2) in DistUnit               *)
PlanarDist(p, q) == SqrtSumSquares(q.x - p.x, q.y - p.y, 0, 2)

(* float(np.mean(confidence_values)) and clamp_unit(score) as fractions    *)
(* num / den of ConfUnit; each confidence value is carried doubled, the    *)
(* code's "* 0.5" being in den.                                            *)
RECURSIVE SeqSum(_)
SeqSum(s) == IF s = <<>> THEN 0 ELSE Head(s) + SeqSum(Tail(s))

ConfidencePoints(landmarks) ==
    <<At(landmarks, EYE_L_OUTER), At(landmarks, EYE_R_OUTER),
      At(landmarks, EYE_L_INNER), At(landmarks, EYE_R_INNER),
      At(landmarks, NOSE_TIP),
      At(landmarks, MOUTH_L_CORNER), At(landmarks, MOUTH_R_CORNER)>>

ConfidenceValues(landmarks) ==
    LET points == ConfidencePoints(landmarks)
    IN  [k \in 1..Len(points) |->
            clamp_unit(points[k].visibility) + clamp_unit(points[k].presence)]

LandmarkConfidenceScoreFallback(landmarks, score) ==
    LET confidence_values == ConfidenceValues(landmarks)
        points == ConfidencePoints(landmarks)
    IN  IF \E k \in 1..Len(points) :
               points[k].visibility # ConfUnit \/ points[k].presence # ConfUnit
        THEN [num |-> SeqSum(confidence_values), den |-> 2 * Len(confidence_values)]
        ELSE [num |-> clamp_unit(score), den |-> 1]

LandmarkConfidence(landmarks, score) ==
    LET confidence_values == ConfidenceValues(landmarks)
    IN  IF confidence_values # <<>>
        THEN [num |-> SeqSum(confidence_values), den |-> 2 * Len(confidence_values)]
        ELSE [num |-> clamp_unit(score), den |-> 1]

(* The pose of compute_face_metrics, step 1, with the number of calls it   *)
(* makes to get_euler_angles.                                              *)
PoseFromMatrixDefaultIdentity(matrix_data) ==
    [angles |-> get_euler_angles(Rmat(IF Truthy(matrix_data)
                                      THEN matrix_data.floats
                                      ELSE IdentityMatrix)),
     calls |-> 1]

PoseFromMatrix(matrix_data) ==
    IF Truthy(matrix_data)
    THEN [angles |-> get_euler_angles(Rmat(matrix_data.floats)), calls |-> 1]
    ELSE [angles |-> [pitch |-> 0, yaw |-> 0, roll |-> 0], calls |-> 0]

FaceScale(landmarks) ==
    LET p_eye_l == At(landmarks, EYE_L_OUTER)
        p_eye_r == At(landmarks, EYE_R_OUTER)
    IN  SqrtSumSquares(p_eye_r.x - p_eye_l.x, p_eye_r.y - p_eye_l.y,
                       p_eye_r.z - p_eye_l.z, 2)

IodistOuter(landmarks) ==
    PlanarDist(At(landmarks, EYE_L_OUTER), At(landmarks, EYE_R_OUTER))

IodistInner(landmarks) ==
    PlanarDist(At(landmarks, EYE_L_INNER), At(landmarks, EYE_R_INNER))

(* 0.6 * iodist_inner + 0.4 * iodist_outer, in BlendUnit                   *)
BlendUnit == 10 * DistUnit

IodistBlend(landmarks) == 6 * IodistInner(landmarks) + 4 * IodistOuter(landmarks)

(* The same three values in binary floating point, operation by operation. *)
PlanarDistBinary(p, q) ==
    LET dx == FSub(q.x, p.x)
        dy == FSub(q.y, p.y)
    IN  FSqrt(FAdd(FMul(dx, dx), FMul(dy, dy)))

IodistBlendBinarySwapped(iodist_inner, iodist_outer) ==
    FAdd(FMul(FloatOfTenths(4), iodist_inner), FMul(FloatOfTenths(6), iodist_outer))

IodistBlendBinary(iodist_inner, iodist_outer) ==
    FAdd(FMul(FloatOfTenths(6), iodist_inner), FMul(FloatOfTenths(4), iodist_outer))

IodistBinary(landmarks) ==
    LET iodist_outer ==
            PlanarDistBinary(At(landmarks, EYE_L_OUTER), At(landmarks, EYE_R_OUTER))
        iodist_inner ==
            PlanarDistBinary(At(landmarks, EYE_L_INNER), At(landmarks, EYE_R_INNER))
    IN  [iodist_outer |-> iodist_outer,
         iodist_inner |-> iodist_inner,
         iodist_blend |-> IodistBlendBinary(iodist_inner, iodist_outer)]

(* The mid points are carried doubled ("* 0.5"), so is their distance.     *)
EyeMouthDist(landmarks) ==
    LET p_eye_l == At(landmarks, EYE_L_OUTER)
        p_eye_r == At(landmarks, EYE_R_OUTER)
        p_mouth_l == At(landmarks, MOUTH_L_CORNER)
        p_mouth_r == At(landmarks, MOUTH_R_CORNER)
        mid_eye_x2 == p_eye_l.x + p_eye_r.x
        mid_eye_y2 == p_eye_l.y + p_eye_r.y
        mid_mouth_x2 == p_mouth_l.x + p_mouth_r.x
        mid_mouth_y2 == p_mouth_l.y + p_mouth_r.y
    IN  SqrtSumSquares(mid_mouth_x2 - mid_eye_x2, mid_mouth_y2 - mid_eye_y2, 0, 2)
            \div 2

OvalWidth3D(landmarks) ==
    LET p_oval_l == At(landmarks, OVAL_L)
        p_oval_r == At(landmarks, OVAL_R)
    IN  SqrtSumSquares(p_oval_r.x - p_oval_l.x, p_oval_r.y - p_oval_l.y,
                       p_oval_r.z - p_oval_l.z, 2)

OvalWidth(landmarks) == PlanarDist(At(landmarks, OVAL_L), At(landmarks, OVAL_R))

NoseEyeDist(landmarks) ==
    PlanarDist(At(landmarks, EYE_L_OUTER), At(landmarks, NOSE_TIP))

FaceHeight(landmarks) ==
    PlanarDist(At(landmarks, CHIN_TIP), At(landmarks, FOREHEAD_TOP))

(* 0.55 * iodist_blend + 0.30 * oval_width + 0.15 * face_height, in        *)
(* SrcScaleUnit (iodist_blend is even, so the half is exact).              *)
SrcScaleUnit == 100 * DistUnit
SrcScalePx(landmarks) ==
    (11 * IodistBlend(landmarks)) \div 2 + 30 * OvalWidth(landmarks)
        + 15 * FaceHeight(landmarks)

(* x_coords = [lm.x for lm in landmarks], and the same for y                *)
XCoords(landmarks) == [k \in 1..Len(landmarks) |-> landmarks[k].x]
YCoords(landmarks) == [k \in 1..Len(landmarks) |-> landmarks[k].y]

RawBw(landmarks) == SeqMax(XCoords(landmarks)) - SeqMin(XCoords(landmarks))

(* The indices compute_face_metrics reads; a list without one of them      *)
(* raises IndexError.                                                      *)
KeyIndices ==
    {NOSE_TIP, EYE_L_OUTER, EYE_R_OUTER, MOUTH_L_CORNER, MOUTH_R_CORNER,
     EYE_L_INNER, EYE_R_INNER, CHIN_TIP, OVAL_L, OVAL_R, FOREHEAD_TOP}

ComputeRaises(landmarks) == \E i \in KeyIndices : ~HasIndex(landmarks, i)

compute_face_metrics(landmarks, matrix_data, score, tie) ==
    LET pose == PoseFromMatrix(matrix_data).angles
        p_nose == At(landmarks, NOSE_TIP)
        p_eye_l == At(landmarks, EYE_L_OUTER)
        p_eye_r == At(landmarks, EYE_R_OUTER)
        p_mouth_l == At(landmarks, MOUTH_L_CORNER)
        p_mouth_r == At(landmarks, MOUTH_R_CORNER)
        p_eye_li == At(landmarks, EYE_L_INNER)
        p_eye_ri == At(landmarks, EYE_R_INNER)
        p_chin == At(landmarks, CHIN_TIP)
        p_oval_l == At(landmarks, OVAL_L)
        p_oval_r == At(landmarks, OVAL_R)
        p_forehead == At(landmarks, FOREHEAD_TOP)
        landmark_confidence == LandmarkConfidence(landmarks, score)
        R4(v) == Round(v, CoordUnit, 4, tie)
        R6(v) == Round(v, DistUnit, 6, tie)
    IN  [pitch |-> Round(pose.pitch, AngleUnit, 2, tie),
         yaw |-> Round(pose.yaw, AngleUnit, 2, tie),
         roll |-> Round(pose.roll, AngleUnit, 2, tie),
         center_x |-> R4(p_eye_l.x),
         center_y |-> R4(p_eye_l.y),
         face_width |-> R4(RawBw(landmarks)),
         face_scale |-> R6(FaceScale(landmarks)),
         interocular_dist |-> R6(IodistOuter(landmarks)),
         nose_x |-> R4(p_nose.x),
         nose_y |-> R4(p_nose.y),
         eye_l_x |-> R4(p_eye_l.x),
         eye_l_y |-> R4(p_eye_l.y),
         eye_r_x |-> R4(p_eye_r.x),
         eye_r_y |-> R4(p_eye_r.y),
         mouth_l_x |-> R4(p_mouth_l.x),
         mouth_l_y |-> R4(p_mouth_l.y),
         mouth_r_x |-> R4(p_mouth_r.x),
         mouth_r_y |-> R4(p_mouth_r.y),
         eye_li_x |-> R4(p_eye_li.x),
         eye_li_y |-> R4(p_eye_li.y),
         eye_ri_x |-> R4(p_eye_ri.x),
         eye_ri_y |-> R4(p_eye_ri.y),
         iodist_inner |-> R6(IodistInner(landmarks)),
         iodist_blend |-> Round(IodistBlend(landmarks), BlendUnit, 6, tie),
         eye_mouth_dist |-> R6(EyeMouthDist(landmarks)),
         chin_x |-> R4(p_chin.x),
         chin_y |-> R4(p_chin.y),
         oval_l_x |-> R4(p_oval_l.x),
         oval_l_y |-> R4(p_oval_l.y),
         oval_r_x |-> R4(p_oval_r.x),
         oval_r_y |-> R4(p_oval_r.y),
         oval_width |-> R6(OvalWidth(landmarks)),
         forehead_x |-> R4(p_forehead.x),
         forehead_y |-> R4(p_forehead.y),
         face_height |-> R6(FaceHeight(landmarks)),
         src_scale_px |-> Round(SrcScalePx(landmarks), SrcScaleUnit, 6, tie),
         nose_eye_dist |-> R6(NoseEyeDist(landmarks)),
         landmark_confidence |->
             RoundDiv(landmark_confidence.num,
                      landmark_confidence.den * (ConfUnit \div 10^3), tie),
         score |-> Round(score, ConfUnit, 3, tie)]

(* The decimals each field of FaceMetrics is rounded to: a field value is  *)
(* a count of 10^-MetricDecimals.                                          *)
MetricDecimals ==
    [f \in {"pitch", "yaw", "roll"} |-> 2]
    @@ [f \in {"landmark_confidence", "score"} |-> 3]
    @@ [f \in {"face_scale", "interocular_dist", "iodist_inner", "iodist_blend",
               "eye_mouth_dist", "oval_width", "face_height", "src_scale_px",
               "nose_eye_dist"} |-> 6]
    @@ [f \in {"center_x", "center_y", "face_width", "nose_x", "nose_y",
               "eye_l_x", "eye_l_y", "eye_r_x", "eye_r_y", "mouth_l_x",
               "mouth_l_y", "mouth_r_x", "mouth_r_y", "eye_li_x", "eye_li_y",
               "eye_ri_x", "eye_ri_y", "chin_x", "chin_y", "oval_l_x",
               "oval_l_y", "oval_r_x", "oval_r_y", "forehead_x",
               "forehead_y"} |-> 4]

(***************************************************************************)
(* xmp_io.py                                                               *)
(***************************************************************************)
(* The display region of generate_xmp before formatting, in quarters of    *)
(* CoordUnit (the padding is raw * 0.25).                                  *)
BoxUnit == 4 * CoordUnit

RegionBox(landmarks) ==
    LET raw_bx == SeqMin(XCoords(landmarks))
        raw_by == SeqMin(YCoords(landmarks))
        raw_bw == SeqMax(XCoords(landmarks)) - raw_bx
        raw_bh == SeqMax(YCoords(landmarks)) - raw_by
        padding_w == raw_bw
        padding_h == raw_bh
        bx == Max2(0, 4 * raw_bx - padding_w)
        by == Max2(0, 4 * raw_by - padding_h)
        bw == Min2(BoxUnit - bx, 4 * raw_bw + 2 * padding_w)
        bh == Min2(BoxUnit - by, 4 * raw_bh + 2 * padding_h)
    IN  [bx |-> bx, by |-> by, bw |-> bw, bh |-> bh]

(* f"{v:.pf}": the decimal with p places nearest to v, as a count of 10^-p *)
Format(v, unit, p, tie) == RoundDiv(v, unit \div 10^p, tie)

(* The p low decimal digits of n, the most significant first.              *)
RECURSIVE DigitsOf(_, _)
DigitsOf(n, p) ==
    IF p = 0 THEN <<>> ELSE Append(DigitsOf(n \div 10, p - 1), n % 10)

(* The text of f"{v:.pf}": a sign, the whole part, and p digits after the  *)
(* point.                                                                  *)
FormatText(v, unit, p, tie) ==
    LET c == Format(v, unit, p, tie)
    IN  [negative |-> c < 0,
         whole |-> Abs(c) \div 10^p,
         fraction |-> DigitsOf(Abs(c) % 10^p, p)]

(* The decimals of the format specification of each acx: element.          *)
XmpDecimalsCoarse ==
    [f \in DOMAIN MetricDecimals |->
        IF MetricDecimals[f] = 6 THEN 4 ELSE MetricDecimals[f]]

XmpDecimals ==
    [f \in {"pitch", "yaw", "roll"} |-> 2]
    @@ [f \in {"center_x", "center_y", "face_width"} |-> 4]
    @@ [f \in {"face_scale", "interocular_dist", "iodist_inner", "iodist_blend",
               "eye_mouth_dist", "oval_width"} |-> 6]
    @@ [f \in {"nose_x", "nose_y", "eye_l_x", "eye_l_y", "eye_r_x", "eye_r_y",
               "eye_li_x", "eye_li_y", "eye_ri_x", "eye_ri_y", "mouth_l_x",
               "mouth_l_y", "mouth_r_x", "mouth_r_y", "chin_x", "chin_y",
               "oval_l_x", "oval_l_y", "oval_r_x", "oval_r_y", "forehead_x",
               "forehead_y"} |-> 4]
    @@ [f \in {"face_height", "src_scale_px", "nose_eye_dist"} |-> 6]
    @@ [f \in {"landmark_confidence", "score"} |-> 3]

(* The region boundary and the acx: elements generate_xmp writes.          *)
generate_xmp(metrics, landmarks, tie) ==
    LET box == RegionBox(landmarks)
    IN  [rbX |-> Format(box.bx, BoxUnit, 3, tie),
         rbY |-> Format(box.by, BoxUnit, 3, tie),
         rbW |-> Format(box.bw, BoxUnit, 3, tie),
         rbH |-> Format(box.bh, BoxUnit, 3, tie),
         text |-> [f \in DOMAIN XmpDecimals |->
                      FormatText(metrics[f], 10^MetricDecimals[f],
                                 XmpDecimals[f], tie)]]

(* float(text), as the build step that reads the XMP back parses it: the   *)
(* value as a count of 10^-decimals.                                       *)
RECURSIVE FromDigits(_)
FromDigits(digits) ==
    IF digits = <<>> THEN 0
    ELSE 10 * FromDigits(SubSeq(digits, 1, Len(digits) - 1)) + digits[Len(digits)]

ParseFixed(text) ==
    [value |-> (IF text.negative THEN -1 ELSE 1)
                   * (text.whole * 10^Len(text.fraction) + FromDigits(text.fraction)),
     decimals |-> Len(text.fraction)]

(***************************************************************************)
(* analyze-faces.py: mirroring                                             *)
(***************************************************************************)
swap_pairs ==
    <<<<EYE_L_OUTER, EYE_R_OUTER>>, <<EYE_L_INNER, EYE_R_INNER>>,
      <<MOUTH_L_CORNER, MOUTH_R_CORNER>>, <<OVAL_L, OVAL_R>>>>

(* mirrored[left_idx], mirrored[right_idx] =                               *)
(*     mirrored[right_idx], mirrored[left_idx]                             *)
SwapOneWay(mirrored, left_idx, right_idx) ==
    [mirrored EXCEPT ![left_idx + 1] = mirrored[right_idx + 1]]

Swap(mirrored, left_idx, right_idx) ==
    [mirrored EXCEPT ![left_idx + 1] = mirrored[right_idx + 1],
                     ![right_idx + 1] = mirrored[left_idx + 1]]

RECURSIVE ApplySwaps(_, _)
ApplySwaps(mirrored, pairs) ==
    IF pairs = <<>> THEN mirrored
    ELSE ApplySwaps(Swap(mirrored, Head(pairs)[1], Head(pairs)[2]), Tail(pairs))

FlipNegate(lm) ==
    SimpleLandmark(-lm.x, lm.y, lm.z, lm.visibility, lm.presence)

(* SimpleLandmark(x=1.0 - lm.x, y=lm.y, z=lm.z, ...)                       *)
Flip(lm) ==
    SimpleLandmark(CoordUnit - lm.x, lm.y, lm.z, lm.visibility, lm.presence)

(* A list without one of the swapped indices raises IndexError.            *)
MirrorRaises(landmarks) ==
    \E k \in 1..Len(swap_pairs) :
        ~HasIndex(landmarks, swap_pairs[k][1]) \/ ~HasIndex(landmarks, swap_pairs[k][2])

build_mirrored_landmarks(landmarks) ==
    ApplySwaps([k \in 1..Len(landmarks) |-> Flip(landmarks[k])], swap_pairs)

(* The same on landmarks whose fields are binary floats: 1.0 - lm.x is the *)
(* float nearest to the difference.                                        *)
FlipBinary(lm) ==
    SimpleLandmark(FSub(FloatUnit, lm.x), lm.y, lm.z, lm.visibility, lm.presence)

build_mirrored_landmarksBinary(landmarks) ==
    ApplySwaps([k \in 1..Len(landmarks) |-> FlipBinary(landmarks[k])], swap_pairs)

build_mirrored_metricsKeepYaw(original, mirrored_landmarks, tie) ==
    LET mirrored == compute_face_metrics(mirrored_landmarks, NoMatrix,
                        original.score * (ConfUnit \div 10^3), tie)
    IN  [mirrored EXCEPT
            !.pitch = original.pitch,
            !.yaw = Round(original.yaw * (AngleUnit \div 10^2), AngleUnit, 2, tie),
            !.roll = Round((-original.roll) * (AngleUnit \div 10^2), AngleUnit, 2, tie)]

build_mirrored_metrics(original, mirrored_landmarks, tie) ==
    LET mirrored == compute_face_metrics(mirrored_landmarks, NoMatrix,
                        original.score * (ConfUnit \div 10^3), tie)
    IN  [mirrored EXCEPT
            !.pitch = original.pitch,
            !.yaw = Round((-original.yaw) * (AngleUnit \div 10^2), AngleUnit, 2, tie),
            !.roll = Round((-original.roll) * (AngleUnit \div 10^2), AngleUnit, 2, tie)]

(***************************************************************************)
(* Inputs.  A landmark list is laid out in a bounding box <<x0, y0, w, h>> *)
(* (CoordUnit): landmark i sits at the per-mille position TemplateX(i, s), *)
(* TemplateY(i, s) of the box, s being one of NumShapes layouts.  The box  *)
(* corners are held by the oval, forehead and chin landmarks.              *)
(***************************************************************************)
NumLandmarks == 468
NumShapes == 2

PerMille == 10^3

KeyTemplate(i) ==
    CASE i = OVAL_L -> <<0, 450>>
      [] i = OVAL_R -> <<1000, 450>>
      [] i = FOREHEAD_TOP -> <<500, 0>>
      [] i = CHIN_TIP -> <<500, 1000>>
      [] i = EYE_L_OUTER -> <<200, 330>>
      [] i = EYE_L_INNER -> <<400, 340>>
      [] i = EYE_R_INNER -> <<600, 340>>
      [] i = EYE_R_OUTER -> <<800, 330>>
      [] i = NOSE_TIP -> <<500, 550>>
      [] i = MOUTH_L_CORNER -> <<350, 750>>
      [] i = MOUTH_R_CORNER -> <<650, 750>>

Corners == {OVAL_L, OVAL_R, FOREHEAD_TOP, CHIN_TIP}

TemplateX(i, s) ==
    IF i \in Corners THEN KeyTemplate(i)[1]
    ELSE IF i \in KeyIndices THEN KeyTemplate(i)[1] + ((i * s * 7) % 41) - 20
    ELSE 1 + ((i * s * 131 + s * 977) % 998)

TemplateY(i, s) ==
    IF i \in Corners THEN KeyTemplate(i)[2]
    ELSE IF i \in KeyIndices THEN KeyTemplate(i)[2] + ((i * s * 11) % 41) - 20
    ELSE 1 + ((i * s * 373 + s * 89) % 998)

TemplateZ(i, s) == (((i * s * 13) % 2001) - 1000) * 10 + s

ConfProfiles == {"absent", "mixed", "wild"}

(* visibility (k = 1) and presence (k = 2) of landmark i.                  *)
TemplateConf(i, s, c, k) ==
    IF c = "absent" THEN ConfUnit
    ELSE IF c = "mixed"
         THEN IF s % 2 = 1
              THEN ConfUnit - ((i * 7 * k + s * 13) % 3001)
              ELSE (i * 97 * k + s * 313) % (ConfUnit + 1)
    ELSE CASE (i + k + s) % 4 = 0 -> NonFinite
           [] (i + k + s) % 4 = 1 -> -2000
           [] (i + k + s) % 4 = 2 -> 13000
           [] OTHER -> (i * 97 * k) % (ConfUnit + 1)

Boxes ==
    { <<25013, 20007, 41234, 52345>>,    \* inside the image
      <<20000, 10000, 79800, 80000>>,    \* wide: the padded region is cut
      <<0, 0, 100000, 100000>>,          \* the whole image
      <<-10000, -5000, 60000, 70000>>,   \* past the left and top edges
      <<60000, 50000, 50000, 60000>>,    \* past the right and bottom edges
      <<50000, 50000, 0, 0>> }           \* every landmark on one point

MakeFace(box, s, c, n) ==
    [k \in 1..n |->
        LET i == k - 1
        IN  SimpleLandmark(box[1] + (TemplateX(i, s) * box[3]) \div PerMille,
                           box[2] + (TemplateY(i, s) * box[4]) \div PerMille,
                           TemplateZ(i, s),
                           TemplateConf(i, s, c, 1),
                           TemplateConf(i, s, c, 2))]

(* Lists of the detector's length, and lists one landmark too short for    *)
(* index OVAL_R.                                                           *)
FaceInputs ==
    {MakeFace(box, s, c, NumLandmarks) :
        box \in Boxes, s \in 1..NumShapes, c \in ConfProfiles}
    \cup {MakeFace(box, 1, "absent", OVAL_R) : box \in Boxes}

MatrixInputs ==
    { NoMatrix,
      Bytes(<<>>),
      Bytes(IdentityMatrix),
      Bytes(Identity4x4),
      Bytes(Mat16(<<8123456, -3000000, 5000000,
                    4000000, 9000000, -1234567,
                    -4226183, 2000000, 8660254>>)),
      Bytes(Mat16(<<3, 0, -MatUnit,
                    -4, 7071068, 7071068,
                    MatUnit, 0, 5>>)) }

ScoreInputs == {ConfUnit, 8765}

(* The entries get_euler_angles reads, each from a few values: around the  *)
(* gimbal-lock threshold, on the axes, and in general position.            *)
EulerInputs ==
    { [i \in 0..2 |-> [j \in 0..2 |->
          CASE <<i, j>> = <<0, 0>> -> r00
            [] <<i, j>> = <<1, 0>> -> r10
            [] <<i, j>> = <<2, 0>> -> r20
            [] <<i, j>> = <<2, 1>> -> r21
            [] <<i, j>> = <<2, 2>> -> r22
            [] <<i, j>> = <<1, 1>> -> r11
            [] <<i, j>> = <<1, 2>> -> r12
            [] OTHER -> 1234567]] :
        r00 \in {0, 6, MatUnit, -8000000},
        r10 \in {0, 7, 8, 6000000},
        r20 \in {0, -MatUnit, 5000000},
        r21 \in {0, 5000000},
        r22 \in {MatUnit, -8660254},
        r11 \in {MatUnit, -MatUnit},
        r12 \in {0, 7071068} }

(***************************************************************************)
(* Writing the XMP into the source file (xmp_io.py).  Bytes are integers   *)
(* 0..255, a str is the sequence of its code points, a file is a record    *)
(* of its suffix, its bytes and whether it can be read and written.        *)
(***************************************************************************)
Lower(s) ==
    [k \in 1..Len(s) |-> IF s[k] \in 65..90 THEN s[k] + 32 ELSE s[k]]

(* ".jpg" and ".jpeg" *)
JpegSuffixes == {<<46, 106, 112, 103>>, <<46, 106, 112, 101, 103>>}

(* b"\xff\xd8" *)
SOI == <<255, 216>>

(* b"http://ns.adobe.com/xap/1.0/\0" *)
XmpMarker ==
    <<104, 116, 116, 112, 58, 47, 47, 110, 115, 46, 97, 100, 111, 98, 101,
      46, 99, 111, 109, 47, 120, 97, 112, 47, 49, 46, 48, 47, 0>>

Surrogates == 55296..57343

(* str.encode("utf-8") raises UnicodeEncodeError on a lone surrogate.      *)
Encodable(text) == \A k \in 1..Len(text) : text[k] \notin Surrogates

Utf8Char(c) ==
    IF c < 128 THEN <<c>>
    ELSE IF c < 2048 THEN <<192 + (c \div 64), 128 + (c % 64)>>
    ELSE IF c < 65536
         THEN <<224 + (c \div 4096), 128 + ((c \div 64) % 64), 128 + (c % 64)>>
    ELSE <<240 + (c \div 262144), 128 + ((c \div 4096) % 64),
           128 + ((c \div 64) % 64), 128 + (c % 64)>>

RECURSIVE Utf8In(_, _, _)
Utf8In(text, lo, hi) ==
    IF lo > hi THEN <<>>
    ELSE IF lo = hi THEN Utf8Char(text[lo])
    ELSE LET mid == (lo + hi) \div 2
         IN  Utf8In(text, lo, mid) \o Utf8In(text, mid + 1, hi)

Utf8(text) == Utf8In(text, 1, Len(text))

Take(data, n) == SubSeq(data, 1, Min2(n, Len(data)))

Drop(data, n) == SubSeq(data, n + 1, Len(data))

(* The largest value of int.to_bytes(2, "big"); above it OverflowError.    *)
MaxUint16 == 65535

to_bytesLittle(n) == <<n % 256, n \div 256>>

to_bytes(n) == <<n \div 256, n % 256>>

ExceptOSError(error) == error = "OSError"

(* except Exception: the classes the statements of the two writers raise   *)
(* (read_bytes and write_bytes OSError, encode UnicodeEncodeError,         *)
(* to_bytes OverflowError) all derive from Exception.                      *)
ExceptException(error) ==
    error \in {"OSError", "UnicodeEncodeError", "OverflowError"}

(* What a writer leaves when a statement of its try block raised error:    *)
(* the handler returns False, an exception it does not catch leaves the    *)
(* function.                                                               *)
Handled(file, error) ==
    [ok |-> FALSE, data |-> file.data,
     raised |-> IF ExceptException(error) THEN None ELSE error]

(* inject_xmp: the value returned, the bytes of the file afterwards and    *)
(* the exception that left the function, if any.                           *)
inject_xmp(file, xmp_str) ==
    IF ~file.readable THEN Handled(file, "OSError")
    ELSE IF ~Encodable(xmp_str) THEN Handled(file, "UnicodeEncodeError")
    ELSE LET xmp_packet == Utf8(xmp_str)
             seg_len == 2 + Len(XmpMarker) + Len(xmp_packet)
         IN  IF seg_len > MaxUint16 THEN Handled(file, "OverflowError")
             ELSE IF Take(file.data, 2) # SOI
             THEN [ok |-> FALSE, data |-> file.data, raised |-> None]
             ELSE IF ~file.writable THEN Handled(file, "OSError")
             ELSE [ok |-> TRUE,
                   data |-> Take(file.data, 2) \o <<255, 225>>
                            \o to_bytes(seg_len) \o XmpMarker
                            \o xmp_packet \o Drop(file.data, 2),
                   raised |-> None]

(* append_xmp_payload *)
append_xmp_payload(file, xmp_str) ==
    IF ~file.readable THEN Handled(file, "OSError")
    ELSE IF ~Encodable(xmp_str) THEN Handled(file, "UnicodeEncodeError")
    ELSE IF ~file.writable THEN Handled(file, "OSError")
    ELSE [ok |-> TRUE, data |-> file.data \o XmpMarker \o Utf8(xmp_str),
          raised |-> None]

(* write_xmp_to_source: the file afterwards, which of the two writers      *)
(* succeeded, whether one of the two "Failed to ..." lines of the function *)
(* was printed, and the exception that left it, if any.                    *)
write_xmp_to_source(file, xmp_str) ==
    LET fallback(found) ==
            LET appended == append_xmp_payload(found, xmp_str)
            IN  [data |-> appended.data, inject |-> FALSE,
                 append |-> appended.ok,
                 failed |-> appended.raised = None /\ ~appended.ok,
                 raised |-> appended.raised]
    IN  IF Lower(file.suffix) \in JpegSuffixes
        THEN LET injected == inject_xmp(file, xmp_str)
             IN  IF injected.raised # None
                 THEN [data |-> injected.data, inject |-> FALSE,
                       append |-> FALSE, failed |-> FALSE,
                       raised |-> injected.raised]
                 ELSE IF injected.ok
                 THEN [data |-> injected.data, inject |-> TRUE,
                       append |-> FALSE, failed |-> FALSE, raised |-> None]
                 ELSE fallback([file EXCEPT !.data = injected.data])
        ELSE fallback(file)

(* Inputs of write_xmp_to_source.                                          *)
SuffixInputs ==
    { <<46, 106, 112, 103>>,             \* .jpg
      <<46, 74, 80, 71>>,                \* .JPG
      <<46, 106, 112, 101, 103>>,        \* .jpeg
      <<46, 112, 110, 103>>,             \* .png
      <<46, 119, 101, 98, 112>>,         \* .webp
      <<46, 106, 112, 101>> }            \* .jpe

DataInputs ==
    { <<>>,
      <<255>>,
      SOI,
      <<255, 216, 255, 224, 0, 16, 74, 70, 73, 70, 0, 255, 217>>,
      <<216, 255, 255, 224, 0, 16>>,
      <<137, 80, 78, 71, 13, 10, 26, 10>> }

(* The longest packet one APP1 segment holds.                              *)
MaxPacket == MaxUint16 - 2 - Len(XmpMarker)

XmpInputs ==
    { <<>>,
      <<60, 120, 47, 62>>,                             \* <x/>
      <<60, 233, 8364, 128512, 62>>,                   \* 1 to 4 byte characters
      <<60, 56448, 62>> }                              \* a lone surrogate

(* Strings of 3-byte characters that encode to one byte less than the     *)
(* longest packet, to the longest packet, and to one byte more.            *)
LongXmpInputs ==
    { [k \in 1..(MaxPacket \div 3 + 1) |-> IF k = 1 THEN 120 ELSE 8364],
      [k \in 1..(MaxPacket \div 3 + 1) |-> IF k = 1 THEN 233 ELSE 8364],
      [k \in 1..(MaxPacket \div 3 + 1) |-> 8364] }

LongXmpFiles ==
    { [suffix |-> <<46, 106, 112, 101, 103>>,
       data |-> <<255, 216, 255, 224, 0, 16, 74, 70, 73, 70, 0, 255, 217>>,
       readable |-> TRUE, writable |-> TRUE],
      [suffix |-> <<46, 112, 110, 103>>,
       data |-> <<137, 80, 78, 71, 13, 10, 26, 10>>,
       readable |-> TRUE, writable |-> TRUE] }

AccessInputs ==
    { [readable |-> TRUE, writable |-> TRUE],
      [readable |-> TRUE, writable |-> FALSE],
      [readable |-> FALSE, writable |-> FALSE] }

(***************************************************************************)
(* The run of main (analyze-faces.py).  A path is the sequence of the      *)
(* codes of its characters, relative to the working directory; the input   *)
(* directory is "in".  The file system is a function from the paths that   *)
(* exist to what the files hold.                                           *)
(***************************************************************************)
LastIndexOf(s, c) ==
    LET ks == {k \in 1..Len(s) : s[k] = c}
    IN  IF ks = {} THEN 0 ELSE SetMax(ks)

(* Path.name, Path.suffix and Path.stem *)
NameOf(path) == Drop(path, LastIndexOf(path, 47))

Suffix(path) ==
    LET name == NameOf(path)
        i == LastIndexOf(name, 46)
    IN  IF 1 < i /\ i < Len(name) THEN Drop(name, i - 1) ELSE <<>>

Stem(path) ==
    LET name == NameOf(path)
    IN  Take(name, Len(name) - Len(Suffix(path)))

EndsWithWhole(s, tail) == s = tail

(* str.endswith *)
EndsWith(s, tail) ==
    /\ Len(s) >= Len(tail)
    /\ SubSeq(s, Len(s) - Len(tail) + 1, Len(s)) = tail

(* "_mirror" *)
MirrorTag == <<95, 109, 105, 114, 114, 111, 114>>

(* ".webp" *)
WebpSuffix == <<46, 119, 101, 98, 112>>

(* "in/": the input directory given as --in-dir *)
InDir == <<105, 110, 47>>

(* ".jpg", ".jpeg", ".png", ".webp", ".gif" *)
SUPPORTED_IMAGE_EXTENSIONS ==
    { <<46, 106, 112, 103>>, <<46, 106, 112, 101, 103>>, <<46, 112, 110, 103>>,
      WebpSuffix, <<46, 103, 105, 102>> }

Supported(path) == Lower(Suffix(path)) \in SUPPORTED_IMAGE_EXTENSIONS

(* source_path.with_name(f"{stem}_mirror{suffix}") *)
MirrorPath(path) ==
    Take(path, LastIndexOf(path, 47)) \o Stem(path) \o MirrorTag \o Suffix(path)

(* The order of sorted() on paths of one directory, and on the strings of  *)
(* the report: by the first character that differs, a prefix first.        *)
PathLessIgnoreCase(a, b) ==
    LET n == Min2(Len(a), Len(b))
        differ == {k \in 1..n : Lower(a)[k] # Lower(b)[k]}
    IN  IF differ = {} THEN Len(a) < Len(b)
        ELSE LET k == CHOOSE j \in differ : \A i \in differ : j <= i
             IN  Lower(a)[k] < Lower(b)[k]

PathLess(a, b) ==
    LET n == Min2(Len(a), Len(b))
        differ == {k \in 1..n : a[k] # b[k]}
    IN  IF differ = {} THEN Len(a) < Len(b)
        ELSE LET k == CHOOSE j \in differ : \A i \in differ : j <= i
             IN  a[k] < b[k]

RECURSIVE SortPaths(_)
SortPaths(paths) ==
    IF paths = {} THEN <<>>
    ELSE LET first == CHOOSE p \in paths : \A q \in paths \ {p} : PathLess(p, q)
         IN  <<first>> \o SortPaths(paths \ {first})

Range(s) == {s[k] : k \in 1..Len(s)}

RECURSIVE Filter(_, _)
Filter(s, keep) ==
    IF s = <<>> THEN <<>>
    ELSE (IF Head(s) \in keep THEN <<Head(s)>> ELSE <<>>) \o Filter(Tail(s), keep)

(* has_required_pose_xmp: every required tag is in the bytes.  The tags    *)
(* come in one piece, with the XMP block generate_xmp writes or with       *)
(* metadata the file already had.                                           *)
has_required_pose_xmp(file) ==
    IF ~file.readable THEN FALSE
    ELSE file.tags \/ file.blocks # <<>>

(* load_missing_report_paths.  payload.missing is None when the report     *)
(* cannot be read, is no JSON or has no "missing" list; an entry is        *)
(* [file |-> path] or, when it has no usable "file", [file |-> <<>>].      *)
ResolveEntry(in_dir, relative) ==
    LET exists(p) == p \in DOMAIN in_dir
        candidates == <<InDir \o relative, relative>>
        hits == {k \in 1..2 : exists(candidates[k]) /\ Supported(candidates[k])}
        fallback_matches ==
            SortPaths({p \in DOMAIN in_dir :
                          NameOf(p) = NameOf(relative) /\ Supported(p)})
    IN  IF hits # {} THEN candidates[CHOOSE k \in hits : \A j \in hits : k <= j]
        ELSE IF fallback_matches # <<>> THEN fallback_matches[1]
        ELSE <<>>

RECURSIVE ResolveEntries(_, _, _)
ResolveEntries(in_dir, entries, seen) ==
    IF entries = <<>> THEN seen
    ELSE LET entry == Head(entries)
             chosen == IF entry.file = <<>> THEN <<>>
                       ELSE ResolveEntry(in_dir, entry.file)
         IN  IF chosen = <<>> \/ EndsWith(Stem(chosen), MirrorTag)
             THEN ResolveEntries(in_dir, Tail(entries), seen)
             ELSE ResolveEntries(in_dir, Tail(entries), seen \cup {chosen})

load_missing_report_paths(in_dir, payload) ==
    IF ~payload.readable THEN <<>>
    ELSE SortPaths(ResolveEntries(in_dir, payload.missing, {}))

(* main, lines 654-672: the files of the run and the files read to select  *)
(* them.                                                                   *)
SelectedFiles(in_dir, only_missing, payload) ==
    LET files == SortPaths({p \in DOMAIN in_dir :
                               Supported(p) /\ ~EndsWith(Stem(p), MirrorTag)})
        report_files == load_missing_report_paths(in_dir, payload)
    IN  IF ~only_missing THEN [files |-> files, read |-> {}]
        ELSE IF report_files # <<>> THEN [files |-> report_files, read |-> {}]
        ELSE [files |-> Filter(files, {p \in Range(files) :
                                          ~has_required_pose_xmp(in_dir[p])}),
              read |-> {[path |-> p, by |-> "has_required_pose_xmp"] :
                           p \in Range(files)}]

(* What the detector returns for an image with a face: the landmarks that  *)
(* reach compute_face_metrics, the seven confidence landmarks carrying the *)
(* visibility conf, and the transform.                                     *)
DetectedLandmarks(conf) ==
    LET face == MakeFace(<<25013, 20007, 41234, 52345>>, 1, "absent", NumLandmarks)
    IN  [k \in 1..NumLandmarks |->
            IF k - 1 \in {EYE_L_OUTER, EYE_R_OUTER, EYE_L_INNER, EYE_R_INNER,
                          NOSE_TIP, MOUTH_L_CORNER, MOUTH_R_CORNER}
            THEN [face[k] EXCEPT !.visibility = conf]
            ELSE face[k]]

DetectedMatrix ==
    Bytes(Mat16(<<8123456, -3000000, 5000000,
                  4000000, 9000000, -1234567,
                  -4226183, 2000000, 8660254>>))

(* What the second detection pass, on the image enlarged twice, returns:   *)
(* another face in a slightly different place with the visibility conf,    *)
(* and another transform.                                                  *)
UpscaledLandmarks(conf) ==
    LET face == MakeFace(<<25213, 20107, 41034, 52545>>, 1, "absent", NumLandmarks)
    IN  [k \in 1..NumLandmarks |->
            IF k - 1 \in {EYE_L_OUTER, EYE_R_OUTER, EYE_L_INNER, EYE_R_INNER,
                          NOSE_TIP, MOUTH_L_CORNER, MOUTH_R_CORNER}
            THEN [face[k] EXCEPT !.visibility = conf]
            ELSE face[k]]

UpscaledMatrix ==
    Bytes(Mat16(<<8223456, -3100000, 4800000,
                  4100000, 8900000, -1334567,
                  -4126183, 2100000, 8760254>>))

(* upscaled_result of an image: "raises" when cv2.resize or the detector   *)
(* raises; otherwise face_landmarks and facial_transformation_matrixes,    *)
(* each a list with one entry or none.  "same" repeats the first pass,     *)
(* "shorter" is a landmark list one landmark shorter than the first pass's *)
(* and "short_matrix" a transform of 12 floats.                            *)
UpscaledResult(image) ==
    LET kind == image.upscaled.kind
        conf == image.upscaled.conf
    IN  [raises |-> kind = "raises",
         face_landmarks |->
             IF kind \in {"raises", "no_face"} THEN <<>>
             ELSE IF kind = "same" THEN <<DetectedLandmarks(image.conf)>>
             ELSE IF kind = "shorter"
             THEN <<SubSeq(UpscaledLandmarks(conf), 1, NumLandmarks - 1)>>
             ELSE <<UpscaledLandmarks(conf)>>,
         facial_transformation_matrixes |->
             IF kind \in {"raises", "no_matrix"} THEN <<>>
             ELSE IF kind = "same" THEN <<DetectedMatrix>>
             ELSE IF kind = "short_matrix"
             THEN <<Bytes(SubSeq(UpscaledMatrix.floats, 1, 12))>>
             ELSE <<UpscaledMatrix>>]

(* (p + s) * 0.5 at the unit of the model; tie says which way a sum that   *)
(* is odd in that unit falls.                                              *)
Half(sum, tie) == RoundDiv(sum, 2, tie)

(* average_landmarks *)
average_landmarks(primary, secondary, tie) ==
    IF Len(primary) # Len(secondary) THEN primary
    ELSE [k \in 1..Len(primary) |->
             SimpleLandmark(Half(primary[k].x + secondary[k].x, tie),
                            Half(primary[k].y + secondary[k].y, tie),
                            Half(primary[k].z + secondary[k].z, tie),
                            Half(primary[k].visibility + secondary[k].visibility, tie),
                            Half(primary[k].presence + secondary[k].presence, tie))]

(* struct.unpack("<16f", data) raises struct.error unless data holds 64    *)
(* bytes.                                                                  *)
UnpackRaises(data) == Len(data.floats) # 16

(* average_matrix_bytes, for two transforms of 16 floats                   *)
average_matrix_bytes(primary, secondary, tie) ==
    Bytes([k \in 1..16 |-> Half(primary.floats[k] + secondary.floats[k], tie)])

UseLandmarkAveragingAlways(only_missing) == TRUE

(* main: use_landmark_averaging=not args.only_missing                      *)
UseLandmarkAveraging(only_missing) == ~only_missing

(* process_image, lines 401-434: landmarks and matrix_data after the       *)
(* optional second pass.  The two assignments of lines 430-431 are made in *)
(* this order inside the try block, so an exception of the second leaves   *)
(* the first in place.                                                     *)
SecondPass(use_landmark_averaging, first_landmarks, first_matrix, upscaled_result, tie) ==
    LET first == [landmarks |-> first_landmarks, matrix_data |-> first_matrix]
    IN  IF ~use_landmark_averaging THEN first
        ELSE IF upscaled_result.raises THEN first
        ELSE IF upscaled_result.face_landmarks = <<>>
                \/ upscaled_result.facial_transformation_matrixes = <<>>
        THEN first
        ELSE
        LET upscaled_landmarks == upscaled_result.face_landmarks[1]
            upscaled_matrix_data == upscaled_result.facial_transformation_matrixes[1]
            averaged == average_landmarks(first_landmarks, upscaled_landmarks, tie)
        IN  IF UnpackRaises(first_matrix) \/ UnpackRaises(upscaled_matrix_data)
            THEN [landmarks |-> averaged, matrix_data |-> first_matrix]
            ELSE [landmarks |-> averaged,
                  matrix_data |-> average_matrix_bytes(first_matrix,
                                                       upscaled_matrix_data, tie)]

MinLandmarkConfidenceHalf == ConfUnit \div 2

(* MIN_LANDMARK_CONFIDENCE = 0.75 *)
MIN_LANDMARK_CONFIDENCE == (3 * ConfUnit) \div 4

(* DetectionReport() *)
DetectionReport ==
    [total_images |-> 0,
     mediapipe_no_face |-> <<>>,
     no_face |-> <<>>,
     missing_matrix |-> <<>>,
     mediapipe_errors |-> <<>>,
     low_confidence |-> <<>>,
     error_types |-> <<>>]

CountErrorOnce(error_types, key) ==
    IF \E item \in Range(error_types) : item[1] = key
    THEN error_types
    ELSE Append(error_types, <<key, 1>>)

(* error_types[key] = error_types.get(key, 0) + 1; the dict is the list of *)
(* its <<key, count>> items.                                               *)
CountError(error_types, key) ==
    IF \E item \in Range(error_types) : item[1] = key
    THEN [k \in 1..Len(error_types) |->
             IF error_types[k][1] = key
             THEN <<key, error_types[k][2] + 1>>
             ELSE error_types[k]]
    ELSE Append(error_types, <<key, 1>>)

(* write_xmp_to_source on a file of the run.  The XMP of generate_xmp is   *)
(* far below the longest APP1 packet, so a JPEG that starts with the SOI   *)
(* gets the segment, every other file the trailer; a file that cannot be   *)
(* read or written stays as it is.                                         *)
WriteXmpBlock(file, path, xmp) ==
    IF ~file.readable \/ ~file.writable THEN file
    ELSE [file EXCEPT !.blocks =
             Append(@, [via |-> IF Lower(Suffix(path)) \in JpegSuffixes /\ file.soi
                                THEN "app1" ELSE "trailer",
                        xmp |-> xmp])]

(* The file cv2.imwrite creates for the flipped image.                     *)
MirroredSource(file, path) ==
    [image |-> file.image, tags |-> FALSE, blocks |-> <<>>,
     soi |-> Lower(Suffix(path)) \in JpegSuffixes,
     readable |-> TRUE, writable |-> TRUE]

Put(dir, path, what) == (path :> what) @@ dir

(* process_image.  image.cv2 says which of the cv2 calls fail on this      *)
(* image: "imencode" (both WebP encodings), "imwrite" (the mirrored        *)
(* source) or none ("ok").  The result is the two directories and the      *)
(* report after the call, how the call ended, and the landmarks and the    *)
(* transform it passed to compute_face_metrics (none when it returned      *)
(* before).                                                                *)
process_image(detector, image_path, in_dir, out_dir, report, use_landmark_averaging, mirror_output, tie) ==
    LET counted == [report EXCEPT !.total_images = @ + 1]
        file == in_dir[image_path]
        path_str == image_path
        skipped(r, outcome) ==
            [in_dir |-> in_dir, out_dir |-> out_dir, report |-> r,
             outcome |-> outcome, landmarks |-> <<>>, matrix_data |-> NoMatrix]
        no_face(r) == [r EXCEPT !.no_face = Append(@, path_str)]
    IN  IF image_path \notin DOMAIN in_dir \/ ~file.readable
           \/ file.image.kind = "unreadable"
        THEN skipped(no_face(counted), "unreadable")
        ELSE IF detector = None
        THEN skipped(no_face([counted EXCEPT
                         !.mediapipe_errors = Append(@, path_str),
                         !.error_types = CountError(@, "detector_unavailable")]),
                     "detector_unavailable")
        ELSE IF file.image.kind = "raises"
        THEN skipped(no_face([counted EXCEPT
                         !.mediapipe_errors = Append(@, path_str),
                         !.error_types = CountError(@, file.image.error)]),
                     "mediapipe_error")
        ELSE IF file.image.kind = "no_face"
        THEN skipped(no_face([counted EXCEPT
                         !.mediapipe_no_face = Append(@, path_str)]),
                     "mediapipe_no_face")
        ELSE IF file.image.kind = "no_matrix"
        THEN skipped(no_face([counted EXCEPT
                         !.missing_matrix = Append(@, path_str)]),
                     "missing_matrix")
        ELSE
        LET cv2 == file.image.cv2
            passed == SecondPass(use_landmark_averaging,
                                 DetectedLandmarks(file.image.conf), DetectedMatrix,
                                 UpscaledResult(file.image), tie)
            face == passed.landmarks
            face_metrics == compute_face_metrics(face, passed.matrix_data, ConfUnit, tie)
        IN  IF face_metrics.landmark_confidence * (ConfUnit \div 10^3)
                   < MIN_LANDMARK_CONFIDENCE
            THEN [in_dir |-> in_dir, out_dir |-> out_dir,
                  report |-> [counted EXCEPT !.low_confidence = Append(@, path_str)],
                  outcome |-> "low_confidence",
                  landmarks |-> face, matrix_data |-> passed.matrix_data]
            ELSE
            LET face_xmp == generate_xmp(face_metrics, face, tie)
                source_written ==
                    Put(in_dir, image_path, WriteXmpBlock(file, image_path, face_xmp))
                webp_written ==
                    IF cv2 = "imencode" THEN out_dir
                    ELSE Put(out_dir, Stem(image_path) \o WebpSuffix,
                             [source |-> image_path, mirrored |-> FALSE])
            IN  IF ~(mirror_output /\ ~EndsWith(Stem(image_path), MirrorTag))
                THEN [in_dir |-> source_written, out_dir |-> webp_written,
                      report |-> counted, outcome |-> "written",
                      landmarks |-> face, matrix_data |-> passed.matrix_data]
                ELSE
                LET flipped == build_mirrored_landmarks(face)
                    flipped_metrics == build_mirrored_metrics(face_metrics, flipped, tie)
                    flipped_xmp == generate_xmp(flipped_metrics, flipped, tie)
                    mirror_path == MirrorPath(image_path)
                    mirror_written ==
                        IF cv2 = "imwrite" THEN source_written
                        ELSE Put(source_written, mirror_path,
                                 WriteXmpBlock(MirroredSource(file, mirror_path),
                                               mirror_path, flipped_xmp))
                    mirror_webp_written ==
                        IF cv2 = "imencode" THEN webp_written
                        ELSE Put(webp_written,
                                 Stem(image_path) \o MirrorTag \o WebpSuffix,
                                 [source |-> image_path, mirrored |-> TRUE])
                IN  [in_dir |-> mirror_written, out_dir |-> mirror_webp_written,
                     report |-> counted, outcome |-> "written",
                     landmarks |-> face, matrix_data |-> passed.matrix_data]

(* to_report_relative_path: the path relative to the input directory, or   *)
(* as it is when it lies elsewhere.                                        *)
to_report_relative_path(path_str) ==
    IF Take(path_str, Len(InDir)) = InDir /\ Len(path_str) > Len(InDir)
    THEN Drop(path_str, Len(InDir))
    ELSE path_str

(* write_unusable_report: the payload written.                             *)
write_unusable_reportNoFaceOnly(report) ==
    LET no_face_paths ==
            SortPaths({to_report_relative_path(p) : p \in Range(report.no_face)})
        low_confidence_paths ==
            SortPaths({to_report_relative_path(p) : p \in Range(report.low_confidence)})
    IN  [totalImagesProcessed |-> report.total_images,
         noFaceCount |-> Len(no_face_paths),
         lowConfidenceCount |-> Len(low_confidence_paths),
         deletionCandidateCount |-> Len(no_face_paths),
         deletionCandidates |-> no_face_paths,
         noFaceOrDetectionError |-> no_face_paths,
         lowLandmarkConfidence |-> low_confidence_paths,
         errorTypes |-> report.error_types]

write_unusable_report(report) ==
    LET no_face_paths ==
            SortPaths({to_report_relative_path(p) : p \in Range(report.no_face)})
        low_confidence_paths ==
            SortPaths({to_report_relative_path(p) : p \in Range(report.low_confidence)})
        deletion_candidates ==
            SortPaths(Range(no_face_paths) \cup Range(low_confidence_paths))
    IN  [totalImagesProcessed |-> report.total_images,
         noFaceCount |-> Len(no_face_paths),
         lowConfidenceCount |-> Len(low_confidence_paths),
         deletionCandidateCount |-> Len(deletion_candidates),
         deletionCandidates |-> deletion_candidates,
         noFaceOrDetectionError |-> no_face_paths,
         lowLandmarkConfidence |-> low_confidence_paths,
         errorTypes |-> report.error_types]

(* Inputs of a run: the files of the input directory, the arguments and    *)
(* the missing-pose report.                                                *)
ImageFile(image, tags, soi, writable) ==
    [image |-> image, tags |-> tags, blocks |-> <<>>, soi |-> soi,
     readable |-> TRUE, writable |-> writable]

(* What the second pass gives for an image: kind is one of "raises",       *)
(* "no_face", "no_matrix", "same", "face", "shorter", "short_matrix".      *)
Upscaled(kind, conf) == [kind |-> kind, conf |-> conf]

Face(conf, cv2, upscaled) ==
    [kind |-> "face", conf |-> conf, cv2 |-> cv2, upscaled |-> upscaled]

Raises(error) == [kind |-> "raises", error |-> error]

Image(kind) == [kind |-> kind]

(* in/a.jpg, in/a.jpeg, in/a_mirror.jpg, in/B.PNG, in/b.webp, in/c.gif,    *)
(* in/notes.txt                                                            *)
PathA == <<105, 110, 47, 97, 46, 106, 112, 103>>
PathAJpeg == <<105, 110, 47, 97, 46, 106, 112, 101, 103>>
PathAMirror == <<105, 110, 47, 97, 95, 109, 105, 114, 114, 111, 114, 46, 106, 112, 103>>
PathB == <<105, 110, 47, 66, 46, 80, 78, 71>>
PathBWebp == <<105, 110, 47, 98, 46, 119, 101, 98, 112>>
PathC == <<105, 110, 47, 99, 46, 103, 105, 102>>
PathNotes == <<105, 110, 47, 110, 111, 116, 101, 115, 46, 116, 120, 116>>

DiskA ==
    (PathA :> ImageFile(Face(9000, "ok", Upscaled("raises", 0)), FALSE, TRUE, TRUE))
    @@ (PathB :> ImageFile(Face(4000, "ok", Upscaled("no_face", 0)), FALSE, FALSE, TRUE))
    @@ (PathBWebp :> ImageFile(Image("no_face"), TRUE, FALSE, TRUE))
    @@ (PathC :> ImageFile(Image("unreadable"), FALSE, FALSE, TRUE))
    @@ (PathNotes :> ImageFile(Image("unreadable"), FALSE, FALSE, TRUE))

DiskB ==
    (PathA :> ImageFile(Face(9000, "ok", Upscaled("face", 8000)), TRUE, TRUE, TRUE))
    @@ (PathAMirror :> ImageFile(Face(9000, "ok", Upscaled("same", 0)), TRUE, TRUE, TRUE))
    @@ (PathB :> ImageFile(Face(4990, "ok", Upscaled("same", 0)), FALSE, FALSE, TRUE))
    @@ (PathBWebp :> ImageFile(Face(4992, "imwrite", Upscaled("no_matrix", 0)), FALSE, FALSE, TRUE))

DiskC ==
    (PathA :> ImageFile(Raises("RuntimeError"), FALSE, TRUE, TRUE))
    @@ (PathAJpeg :> ImageFile(Face(5000, "imencode", Upscaled("shorter", 5000)), FALSE, FALSE, TRUE))
    @@ (PathB :> ImageFile(Raises("RuntimeError"), FALSE, FALSE, TRUE))
    @@ (PathBWebp :> ImageFile(Image("no_matrix"), FALSE, FALSE, TRUE))
    @@ (PathC :> ImageFile(Face(9000, "ok", Upscaled("short_matrix", 9000)), FALSE, FALSE, FALSE))

(* DiskB holds the image whose confidence falls on a half-way value.       *)
DiskInputs ==
    {[in_dir |-> DiskA, tie |-> "even"], [in_dir |-> DiskC, tie |-> "even"]}
    \cup {[in_dir |-> DiskB, tie |-> tie] : tie \in TieModes}

LimitInputs == {0, 1, 2}

ArgInputs ==
    { [only_missing |-> only_missing, limit |-> limit, mirror |-> mirror] :
          only_missing \in BOOLEAN, limit \in LimitInputs, mirror \in BOOLEAN }

(* The "file" values b.webp, a.jpg, in/a.jpg, a_mirror.jpg, notes.txt,     *)
(* an entry without one, zz.jpg; and other/B.PNG.                          *)
ReportInputs ==
    { [readable |-> FALSE, missing |-> <<>>],
      [readable |-> TRUE,
       missing |-> << [file |-> <<98, 46, 119, 101, 98, 112>>],
                      [file |-> <<97, 46, 106, 112, 103>>],
                      [file |-> <<105, 110, 47, 97, 46, 106, 112, 103>>],
                      [file |-> <<97, 95, 109, 105, 114, 114, 111, 114, 46, 106, 112, 103>>],
                      [file |-> <<110, 111, 116, 101, 115, 46, 116, 120, 116>>],
                      [file |-> <<>>],
                      [file |-> <<122, 122, 46, 106, 112, 103>>] >>],
      [readable |-> TRUE,
       missing |-> << [file |-> <<111, 116, 104, 101, 114, 47, 66, 46, 80, 78, 71>>] >>] }

(* The arguments of a later start of the script.                           *)
RerunArgs == {a \in ArgInputs : a.limit = 0 /\ a.mirror}

(***************************************************************************)
(* State                                                                   *)
(***************************************************************************)
VARIABLES
    landmarks,            \* the landmark list passed to the functions
    matrix_data,          \* the transform passed to compute_face_metrics
    score,                \* the detection score passed to it
    tie_mode,             \* how the doubles of this run fall at half-way values
    metrics,              \* compute_face_metrics(landmarks, matrix_data, score)
    euler_calls,          \* calls of get_euler_angles made so far
    xmp,                  \* generate_xmp(metrics, name, landmarks)
    mirrored_landmarks,   \* build_mirrored_landmarks(landmarks)
    mirrored_metrics,     \* build_mirrored_metrics(metrics, mirrored_landmarks)
    mirrored_xmp,         \* generate_xmp(mirrored_metrics, ..., mirrored_landmarks)
    remirrored_landmarks, \* build_mirrored_landmarks(mirrored_landmarks)
    rmat,                 \* the argument of a direct get_euler_angles call
    angles,               \* what that call returned
    iodist,               \* the eye distances of compute_face_metrics, unrounded
    done,                 \* the results computed so far
    raised,               \* the calls that raised, with the exception
    image_file,           \* the source file write_xmp_to_source works on
    xmp_str,              \* the XMP string passed to it
    write_log,            \* the bytes it found and which writer succeeded
    args,                 \* main: --only-missing, --limit, --mirror
    missing_report,       \* the missing-pose report on disk
    in_dir,               \* the files under the input directory
    out_dir,              \* the files of the output directory
    files,                \* main: the sorted list of files of the run
    count,                \* main: the images processed so far
    report,               \* the DetectionReport of the run
    calls,                \* the process_image calls made, in order
    before_call,          \* directories and report before the last call
    reads,                \* the input files read so far in the run, and by what
    printed,              \* the count printed as processed, -1 before
    unusable,             \* what write_unusable_report wrote
    pc,                   \* where main is: "start", "loop", "done"
    runs                  \* how many times the script was started

vars ==
    <<landmarks, matrix_data, score, tie_mode, metrics, euler_calls, xmp,
      mirrored_landmarks, mirrored_metrics, mirrored_xmp, remirrored_landmarks,
      rmat, angles, iodist, done, raised, image_file, xmp_str, write_log,
      args, missing_report, in_dir, out_dir, files, count, report, calls,
      before_call, reads, printed, unusable, pc, runs>>

results ==
    <<metrics, euler_calls, xmp, mirrored_landmarks, mirrored_metrics,
      mirrored_xmp, remirrored_landmarks, angles, iodist, done, raised>>

run ==
    <<args, missing_report, in_dir, out_dir, files, count, report, calls,
      before_call, reads, printed, unusable, pc, runs>>

xmpio == <<image_file, xmp_str, write_log>>

inputs == <<landmarks, matrix_data, score, tie_mode, rmat>>

NoResults ==
    /\ metrics = None
    /\ euler_calls = 0
    /\ xmp = None
    /\ mirrored_landmarks = None
    /\ mirrored_metrics = None
    /\ mirrored_xmp = None
    /\ remirrored_landmarks = None
    /\ angles = None
    /\ iodist = None
    /\ done = {}
    /\ raised = {}

NoWrite ==
    /\ image_file = None
    /\ xmp_str = None
    /\ write_log = None

NoRun ==
    /\ args = None
    /\ missing_report = None
    /\ in_dir = <<>>
    /\ out_dir = <<>>
    /\ files = <<>>
    /\ count = 0
    /\ report = None
    /\ calls = <<>>
    /\ before_call = None
    /\ reads = {}
    /\ printed = -1
    /\ unusable = None
    /\ pc = "idle"
    /\ runs = 0

(* The functions applied to one set of arguments each.                     *)
Init ==
    /\ landmarks \in FaceInputs
    /\ matrix_data \in MatrixInputs
    /\ score \in ScoreInputs
    /\ tie_mode \in TieModes
    /\ rmat = None
    /\ NoResults
    /\ NoWrite
    /\ NoRun

Settled(call) == call \in done \/ call \in {r[1] : r \in raised}

ComputeFaceMetrics ==
    /\ ~Settled("metrics")
    /\ IF Truthy(matrix_data) /\ Len(matrix_data.floats) # 16
       THEN /\ raised' = raised \cup {<<"metrics", "struct.error">>}
            /\ UNCHANGED <<metrics, euler_calls, done>>
       ELSE IF ComputeRaises(landmarks)
       THEN /\ raised' = raised \cup {<<"metrics", "IndexError">>}
            /\ euler_calls' = euler_calls + PoseFromMatrix(matrix_data).calls
            /\ UNCHANGED <<metrics, done>>
       ELSE /\ metrics' = compute_face_metrics(landmarks, matrix_data, score, tie_mode)
            /\ euler_calls' = euler_calls + PoseFromMatrix(matrix_data).calls
            /\ done' = done \cup {"metrics"}
            /\ UNCHANGED raised
    /\ UNCHANGED <<inputs, xmpio, run, xmp, mirrored_landmarks, mirrored_metrics,
                   mirrored_xmp, remirrored_landmarks, angles, iodist>>

GenerateXmp ==
    /\ "metrics" \in done
    /\ ~Settled("xmp")
    /\ xmp' = generate_xmp(metrics, landmarks, tie_mode)
    /\ done' = done \cup {"xmp"}
    /\ UNCHANGED <<inputs, xmpio, run, metrics, euler_calls, mirrored_landmarks,
                   mirrored_metrics, mirrored_xmp, remirrored_landmarks,
                   angles, iodist, raised>>

BuildMirroredLandmarks ==
    /\ "xmp" \in done \/ <<"metrics", "IndexError">> \in raised
    /\ ~Settled("mirrored_landmarks")
    /\ IF MirrorRaises(landmarks)
       THEN /\ raised' = raised \cup {<<"mirrored_landmarks", "IndexError">>}
            /\ UNCHANGED <<mirrored_landmarks, done>>
       ELSE /\ mirrored_landmarks' = build_mirrored_landmarks(landmarks)
            /\ done' = done \cup {"mirrored_landmarks"}
            /\ UNCHANGED raised
    /\ UNCHANGED <<inputs, xmpio, run, metrics, euler_calls, xmp, mirrored_metrics,
                   mirrored_xmp, remirrored_landmarks, angles, iodist>>

BuildMirroredMetrics ==
    /\ "metrics" \in done
    /\ "mirrored_landmarks" \in done
    /\ ~Settled("mirrored_metrics")
    /\ mirrored_metrics' = build_mirrored_metrics(metrics, mirrored_landmarks, tie_mode)
    /\ done' = done \cup {"mirrored_metrics"}
    /\ UNCHANGED <<inputs, xmpio, run, metrics, euler_calls, xmp, mirrored_landmarks,
                   mirrored_xmp, remirrored_landmarks, angles, iodist, raised>>

GenerateMirroredXmp ==
    /\ "mirrored_metrics" \in done
    /\ ~Settled("mirrored_xmp")
    /\ mirrored_xmp' = generate_xmp(mirrored_metrics, mirrored_landmarks, tie_mode)
    /\ done' = done \cup {"mirrored_xmp"}
    /\ UNCHANGED <<inputs, xmpio, run, metrics, euler_calls, xmp, mirrored_landmarks,
                   mirrored_metrics, remirrored_landmarks, angles, iodist, raised>>

(* build_mirrored_landmarks applied to its own result.                     *)
MirrorAgain ==
    /\ "mirrored_xmp" \in done
    /\ ~Settled("remirrored_landmarks")
    /\ remirrored_landmarks' = build_mirrored_landmarks(mirrored_landmarks)
    /\ done' = done \cup {"remirrored_landmarks"}
    /\ UNCHANGED <<inputs, xmpio, run, metrics, euler_calls, xmp, mirrored_landmarks,
                   mirrored_metrics, mirrored_xmp, angles, iodist, raised>>

Next ==
    \/ ComputeFaceMetrics
    \/ GenerateXmp
    \/ BuildMirroredLandmarks
    \/ BuildMirroredMetrics
    \/ GenerateMirroredXmp
    \/ MirrorAgain

Spec == Init /\ [][Next]_vars

(* get_euler_angles applied to one rotation matrix.                        *)
InitEuler ==
    /\ rmat \in EulerInputs
    /\ landmarks = <<>>
    /\ matrix_data = NoMatrix
    /\ score = ConfUnit
    /\ tie_mode = "even"
    /\ NoResults
    /\ NoWrite
    /\ NoRun

GetEulerAngles ==
    /\ ~Settled("angles")
    /\ angles' = get_euler_angles(rmat)
    /\ euler_calls' = euler_calls + 1
    /\ done' = done \cup {"angles"}
    /\ UNCHANGED <<inputs, xmpio, run, metrics, xmp, mirrored_landmarks, mirrored_metrics,
                   mirrored_xmp, remirrored_landmarks, iodist, raised>>

NextEuler == GetEulerAngles

SpecEuler == InitEuler /\ [][NextEuler]_vars

(***************************************************************************)
(* The eye distances and the mirroring in binary floating point.  Every    *)
(* field of a landmark is a float; the eye corners are laid out on given   *)
(* separations, the other landmarks on BinaryGrid.                         *)
(***************************************************************************)
BinaryGrid ==
    <<0, 1, 1677312, 3 * 2^20, 5591040, 2^23 - 2^12, 2^23, 2^23 + 2^13,
      11182080, 15 * 2^20, 2^24 - 2^13, FloatUnit>>

EyeSeparations == {0, 13656, 436992, 4194304, 6991872, 7004160}

EyeRises == {0, 3 * 2^20}

BinaryFace(inner, outer, rise, s, n) ==
    [k \in 1..n |->
        LET i == k - 1
            grid_x == BinaryGrid[((i * 5 + s) % Len(BinaryGrid)) + 1]
            grid_y == BinaryGrid[((i * 7 + 3 * s) % Len(BinaryGrid)) + 1]
            grid_z == BinaryGrid[((i * 11 + s) % Len(BinaryGrid)) + 1] - 2^23
            grid_v == BinaryGrid[((i + s) % Len(BinaryGrid)) + 1]
        IN  CASE i \in {EYE_L_OUTER, EYE_L_INNER} ->
                     SimpleLandmark(0, 2^22, grid_z, grid_v, FloatUnit)
              [] i = EYE_R_OUTER ->
                     SimpleLandmark(outer, 2^22 + rise, grid_z, grid_v, FloatUnit)
              [] i = EYE_R_INNER ->
                     SimpleLandmark(inner, 2^22 + rise, grid_z, FloatUnit, grid_v)
              [] OTHER ->
                     SimpleLandmark(grid_x, grid_y, grid_z, grid_v, grid_v)]

BinaryFaceInputs ==
    {BinaryFace(inner, outer, rise, s, NumLandmarks) :
        inner \in EyeSeparations, outer \in EyeSeparations,
        rise \in EyeRises, s \in 1..NumShapes}
    \cup {BinaryFace(0, 4194304, 0, s, OVAL_R) : s \in 1..NumShapes}

InitBinary ==
    /\ landmarks \in BinaryFaceInputs
    /\ matrix_data = NoMatrix
    /\ score = FloatUnit
    /\ tie_mode = "even"
    /\ rmat = None
    /\ NoResults
    /\ NoWrite
    /\ NoRun

(* Lines 153-159 of compute_face_metrics.                                  *)
ComputeIodistBinary ==
    /\ ~Settled("iodist")
    /\ IF ComputeRaises(landmarks)
       THEN /\ raised' = raised \cup {<<"iodist", "IndexError">>}
            /\ UNCHANGED <<iodist, done>>
       ELSE /\ iodist' = IodistBinary(landmarks)
            /\ done' = done \cup {"iodist"}
            /\ UNCHANGED raised
    /\ UNCHANGED <<inputs, xmpio, run, metrics, euler_calls, xmp, mirrored_landmarks,
                   mirrored_metrics, mirrored_xmp, remirrored_landmarks, angles>>

BuildMirroredLandmarksBinary ==
    /\ Settled("iodist")
    /\ ~Settled("mirrored_landmarks")
    /\ IF MirrorRaises(landmarks)
       THEN /\ raised' = raised \cup {<<"mirrored_landmarks", "IndexError">>}
            /\ UNCHANGED <<mirrored_landmarks, done>>
       ELSE /\ mirrored_landmarks' = build_mirrored_landmarksBinary(landmarks)
            /\ done' = done \cup {"mirrored_landmarks"}
            /\ UNCHANGED raised
    /\ UNCHANGED <<inputs, xmpio, run, metrics, euler_calls, xmp, mirrored_metrics,
                   mirrored_xmp, remirrored_landmarks, angles, iodist>>

MirrorAgainBinary ==
    /\ "mirrored_landmarks" \in done
    /\ ~Settled("remirrored_landmarks")
    /\ remirrored_landmarks' = build_mirrored_landmarksBinary(mirrored_landmarks)
    /\ done' = done \cup {"remirrored_landmarks"}
    /\ UNCHANGED <<inputs, xmpio, run, metrics, euler_calls, xmp, mirrored_landmarks,
                   mirrored_metrics, mirrored_xmp, angles, iodist, raised>>

NextBinary ==
    \/ ComputeIodistBinary
    \/ BuildMirroredLandmarksBinary
    \/ MirrorAgainBinary

SpecBinary == InitBinary /\ [][NextBinary]_vars

(***************************************************************************)
(* write_xmp_to_source applied to one file and one XMP string.             *)
(***************************************************************************)
NoFace ==
    /\ landmarks = <<>>
    /\ matrix_data = NoMatrix
    /\ score = ConfUnit
    /\ tie_mode = "even"
    /\ rmat = None
    /\ NoResults

InitXmp ==
    /\ \/ /\ image_file \in
                 {[suffix |-> suffix, data |-> data,
                   readable |-> access.readable, writable |-> access.writable] :
                      suffix \in SuffixInputs, data \in DataInputs,
                      access \in AccessInputs}
          /\ xmp_str \in XmpInputs
       \/ /\ image_file \in LongXmpFiles
          /\ xmp_str \in LongXmpInputs
    /\ write_log = None
    /\ NoFace
    /\ NoRun

WriteXmpToSource ==
    /\ done = {}
    /\ \E written \in {write_xmp_to_source(image_file, xmp_str)} :
          /\ image_file' = [image_file EXCEPT !.data = written.data]
          /\ write_log' = [before |-> image_file.data,
                           inject |-> written.inject,
                           append |-> written.append,
                           failed |-> written.failed,
                           raised |-> written.raised]
    /\ done' = done \cup {"write"}
    /\ UNCHANGED <<inputs, run, xmp_str, metrics, euler_calls, xmp,
                   mirrored_landmarks, mirrored_metrics, mirrored_xmp,
                   remirrored_landmarks, angles, iodist, raised>>

(* inject_xmp called on the file, whatever its suffix.                     *)
InjectXmp ==
    /\ done = {}
    /\ \E injected \in {inject_xmp(image_file, xmp_str)} :
          /\ image_file' = [image_file EXCEPT !.data = injected.data]
          /\ write_log' = [before |-> image_file.data,
                           inject |-> injected.ok,
                           append |-> FALSE,
                           failed |-> FALSE,
                           raised |-> injected.raised]
    /\ done' = done \cup {"inject"}
    /\ UNCHANGED <<inputs, run, xmp_str, metrics, euler_calls, xmp,
                   mirrored_landmarks, mirrored_metrics, mirrored_xmp,
                   remirrored_landmarks, angles, iodist, raised>>

(* append_xmp_payload called on the file.                                  *)
AppendXmpPayload ==
    /\ done = {}
    /\ \E appended \in {append_xmp_payload(image_file, xmp_str)} :
          /\ image_file' = [image_file EXCEPT !.data = appended.data]
          /\ write_log' = [before |-> image_file.data,
                           inject |-> FALSE,
                           append |-> appended.ok,
                           failed |-> FALSE,
                           raised |-> appended.raised]
    /\ done' = done \cup {"append"}
    /\ UNCHANGED <<inputs, run, xmp_str, metrics, euler_calls, xmp,
                   mirrored_landmarks, mirrored_metrics, mirrored_xmp,
                   remirrored_landmarks, angles, iodist, raised>>

NextXmp ==
    \/ WriteXmpToSource
    \/ InjectXmp
    \/ AppendXmpPayload

SpecXmp == InitXmp /\ [][NextXmp]_vars

(***************************************************************************)
(* A run of main: the file list, one process_image call per step of the    *)
(* loop, the summary and the unusable-image report; then the script may be *)
(* started again on what the run left on disk.                             *)
(***************************************************************************)
MaxRuns == 2

LimitReachedAfter(limit, n) == limit > 0 /\ n > limit

(* if args.limit > 0 and count >= args.limit: break *)
LimitReached(limit, n) == limit > 0 /\ n >= limit

NoCall == [in_dir |-> <<>>, out_dir |-> <<>>, report |-> DetectionReport]

InitRun ==
    /\ \E disk \in DiskInputs :
          /\ in_dir = disk.in_dir
          /\ tie_mode = disk.tie
    /\ out_dir = <<>>
    /\ args \in ArgInputs
    /\ missing_report \in ReportInputs
    /\ files = <<>>
    /\ count = 0
    /\ report = DetectionReport
    /\ calls = <<>>
    /\ before_call = NoCall
    /\ reads = {}
    /\ printed = -1
    /\ unusable = None
    /\ pc = "start"
    /\ runs = 1
    /\ landmarks = <<>>
    /\ matrix_data = NoMatrix
    /\ score = ConfUnit
    /\ rmat = None
    /\ NoResults
    /\ NoWrite

(* main, lines 654-673 *)
SelectFiles ==
    /\ pc = "start"
    /\ LET selected == SelectedFiles(in_dir, args.only_missing, missing_report)
       IN  /\ files' = selected.files
           /\ reads' = selected.read
    /\ report' = DetectionReport
    /\ count' = 0
    /\ pc' = "loop"
    /\ UNCHANGED <<inputs, results, xmpio, args, missing_report, in_dir,
                   out_dir, calls, before_call, printed, unusable, runs>>

(* main, lines 675-688: one pass of the loop *)
ProcessNext ==
    /\ pc = "loop"
    /\ count < Len(files)
    /\ ~LimitReached(args.limit, count)
    /\ \E after \in {process_image("FaceLandmarker", files[count + 1], in_dir,
                                    out_dir, report,
                                    UseLandmarkAveraging(args.only_missing),
                                    args.mirror, tie_mode)} :
          /\ in_dir' = after.in_dir
          /\ out_dir' = after.out_dir
          /\ report' = after.report
          /\ landmarks' = after.landmarks
          /\ matrix_data' = after.matrix_data
          /\ calls' = Append(calls, [path |-> files[count + 1],
                                     outcome |-> after.outcome,
                                     use_landmark_averaging |->
                                         UseLandmarkAveraging(args.only_missing)])
    /\ reads' = reads \cup {[path |-> files[count + 1], by |-> "process_image"]}
    /\ before_call' = [in_dir |-> in_dir, out_dir |-> out_dir, report |-> report]
    /\ count' = count + 1
    /\ UNCHANGED <<score, tie_mode, rmat, results, xmpio, args, missing_report,
                   files, printed, unusable, pc, runs>>

(* main, lines 690-693 *)
Finish ==
    /\ pc = "loop"
    /\ count >= Len(files) \/ LimitReached(args.limit, count)
    /\ printed' = count
    /\ unusable' = write_unusable_report(report)
    /\ pc' = "done"
    /\ UNCHANGED <<inputs, results, xmpio, args, missing_report, in_dir,
                   out_dir, files, count, report, calls, before_call, reads,
                   runs>>

(* The script started again on the same report, with other arguments.      *)
Rerun ==
    /\ pc = "done"
    /\ runs < MaxRuns
    /\ args' \in RerunArgs
    /\ runs' = runs + 1
    /\ files' = <<>>
    /\ count' = 0
    /\ report' = DetectionReport
    /\ calls' = <<>>
    /\ before_call' = NoCall
    /\ reads' = {}
    /\ printed' = -1
    /\ unusable' = None
    /\ pc' = "start"
    /\ landmarks' = <<>>
    /\ matrix_data' = NoMatrix
    /\ UNCHANGED <<score, tie_mode, rmat, results, xmpio, missing_report,
                   in_dir, out_dir>>

NextRun ==
    \/ SelectFiles
    \/ ProcessNext
    \/ Finish
    \/ Rerun

SpecRun == InitRun /\ [][NextRun]_vars

(***************************************************************************)
(* process_image called on one DetectionReport, with any of the files and  *)
(* with or without a detector, in any order.                               *)
(***************************************************************************)
MaxCalls == 3

InitReport ==
    /\ in_dir \in {DiskA, DiskC}
    /\ out_dir = <<>>
    /\ report = DetectionReport
    /\ calls = <<>>
    /\ before_call = NoCall
    /\ pc = "calls"
    /\ args = None
    /\ missing_report = None
    /\ files = <<>>
    /\ count = 0
    /\ reads = {}
    /\ printed = -1
    /\ unusable = None
    /\ runs = 0
    /\ NoFace
    /\ NoWrite

ProcessImageCall ==
    /\ pc = "calls"
    /\ Len(calls) < MaxCalls
    /\ \E image_path \in DOMAIN in_dir \ {PathC, PathNotes} :
       \E detector \in {None, "FaceLandmarker"} :
       \E use_landmark_averaging \in BOOLEAN :
       \E after \in {process_image(detector, image_path, in_dir, out_dir,
                                   report, use_landmark_averaging, FALSE,
                                   tie_mode)} :
          /\ in_dir' = after.in_dir
          /\ out_dir' = after.out_dir
          /\ report' = after.report
          /\ landmarks' = after.landmarks
          /\ matrix_data' = after.matrix_data
          /\ calls' = Append(calls, [path |-> image_path,
                                     outcome |-> after.outcome,
                                     use_landmark_averaging |->
                                         use_landmark_averaging])
    /\ before_call' = [in_dir |-> in_dir, out_dir |-> out_dir, report |-> report]
    /\ UNCHANGED <<score, tie_mode, rmat, results, xmpio, args, missing_report, files, count,
                   reads, printed, unusable, pc, runs>>

NextReport == ProcessImageCall

SpecReport == InitReport /\ [][NextReport]_vars

(***************************************************************************)
(* Properties                                                              *)
(***************************************************************************)

(* sy < 1e-6, stated on the squares so that no square root is involved.    *)
GimbalLock(R) ==
    /\ Abs(R[0][0]) < SINGULAR_EPS
    /\ Abs(R[1][0]) < SINGULAR_EPS
    /\ R[0][0] * R[0][0] + R[1][0] * R[1][0] < SINGULAR_EPS * SINGULAR_EPS

(* C1: get_euler_angles computes sy = sqrt(R00^2 + R10^2); when sy is at   *)
(* least 1e-6 it returns pitch = atan2(R21, R22), yaw = atan2(-R20, sy),   *)
(* roll = atan2(R10, R00); when sy is below 1e-6 it returns                *)
(* pitch = atan2(-R12, R11), yaw = atan2(-R20, sy) and roll = 0.  The      *)
(* angles are degrees: atan2(0.5, -0.8660254) is 150, atan2(-1, 0) is -90. *)
C1_EulerBranches ==
    "angles" \in done =>
        LET R == rmat
            sy == SqrtSumSquares(R[0][0], R[1][0], 0, 0)
        IN  /\ angles.yaw = NegAtan2Deg(R[2][0], sy)
            /\ ~GimbalLock(R) =>
                   /\ angles.pitch = Atan2Deg(R[2][1], R[2][2])
                   /\ angles.roll = Atan2Deg(R[1][0], R[0][0])
                   /\ (R[2][1] = 5000000 /\ R[2][2] = -8660254) =>
                          Abs(angles.pitch - 150 * AngleUnit) <= 1
            /\ GimbalLock(R) =>
                   /\ angles.pitch = NegAtan2Deg(R[1][2], R[1][1])
                   /\ angles.roll = 0
                   /\ (R[2][0] = MatUnit) =>
                          Abs(angles.yaw + 90 * AngleUnit) <= 1
            /\ \A a \in {angles.pitch, angles.yaw, angles.roll} :
                   Abs(a) <= 180 * AngleUnit

(* A gimbal-lock matrix just below the threshold (sy = 0.9e-6) whose       *)
(* non-singular roll would not be 0.                                       *)
C1_Witness ==
    /\ "angles" \in done
    /\ rmat[0][0] = 6
    /\ rmat[1][0] = 7
    /\ rmat[1][2] = 7071068
    /\ angles.roll = 0
    /\ angles.pitch # 0
    /\ Atan2Deg(rmat[1][0], rmat[0][0]) # 0

(* C2: with no transform (None or empty bytes) compute_face_metrics        *)
(* returns pitch = yaw = roll = 0 for every landmark list and score, and   *)
(* get_euler_angles is never called.                                       *)
C2_NoTransformZeroPose ==
    (matrix_data = NoMatrix \/ matrix_data = Bytes(<<>>)) =>
        /\ euler_calls = 0
        /\ <<"metrics", "struct.error">> \notin raised
        /\ "metrics" \in done =>
               /\ metrics.pitch = 0
               /\ metrics.yaw = 0
               /\ metrics.roll = 0

C2_Witness ==
    /\ "metrics" \in done
    /\ matrix_data = Bytes(<<>>)
    /\ score # ConfUnit
    /\ metrics.pitch = 0
    /\ euler_calls = 0

(* A confidence field clamped to [0, 1]; a non-finite one counts as 1.     *)
Clamp01(v) ==
    IF v = NonFinite THEN ConfUnit
    ELSE IF v < 0 THEN 0
    ELSE IF v > ConfUnit THEN ConfUnit
    ELSE v

SevenConfidenceLandmarks == <<33, 263, 133, 362, 1, 61, 291>>

RECURSIVE ClampedFieldSum(_, _)
ClampedFieldSum(lms, idx) ==
    IF idx = <<>> THEN 0
    ELSE Clamp01(lms[Head(idx) + 1].visibility)
             + Clamp01(lms[Head(idx) + 1].presence)
             + ClampedFieldSum(lms, Tail(idx))

(* C3: landmark_confidence is the mean, over the landmarks 33, 263, 133,   *)
(* 362, 1, 61 and 291, of (visibility + presence) / 2 with each field      *)
(* clamped to [0, 1], rounded to 3 decimals; it lies in [0, 1].            *)
C3_LandmarkConfidenceMean ==
    "metrics" \in done =>
        /\ metrics.landmark_confidence =
               RoundDiv(ClampedFieldSum(landmarks, SevenConfidenceLandmarks),
                        14 * (ConfUnit \div 10^3), tie_mode)
        /\ metrics.landmark_confidence >= 0
        /\ metrics.landmark_confidence <= 10^3

(* Fields above 1, below 0 and non-finite among the seven landmarks, and a *)
(* mean strictly inside (0, 1).                                            *)
C3_Witness ==
    /\ "metrics" \in done
    /\ \E i \in 1..7 :
           At(landmarks, SevenConfidenceLandmarks[i]).presence > ConfUnit
    /\ \E i \in 1..7 :
           At(landmarks, SevenConfidenceLandmarks[i]).visibility = NonFinite
    /\ \E i \in 1..7 :
           At(landmarks, SevenConfidenceLandmarks[i]).visibility < 0
    /\ metrics.landmark_confidence > 0
    /\ metrics.landmark_confidence < 10^3

(* Every landmark is SimpleLandmark(x, y, z): the confidence fields are    *)
(* left to their defaults.                                                 *)
NoConfidenceFields(lms) ==
    \A k \in 1..Len(lms) : lms[k] = SimpleLandmark3(lms[k].x, lms[k].y, lms[k].z)

(* C4 as stated: when the landmarks carry no visibility/presence fields,   *)
(* the landmark_confidence returned equals the detection score passed as   *)
(* score (both at their 3 decimals).                                       *)
C4_Original ==
    ("metrics" \in done /\ NoConfidenceFields(landmarks)) =>
        metrics.landmark_confidence = metrics.score

(* C4, amended: when the landmarks carry no visibility/presence fields,    *)
(* each field takes its default 1.0 and the landmark_confidence returned   *)
(* is 1.0 whatever the score; it equals the score when the score is 1.0.   *)
C4_DefaultsGiveOne ==
    ("metrics" \in done /\ NoConfidenceFields(landmarks)) =>
        /\ metrics.landmark_confidence = 10^3
        /\ score = ConfUnit => metrics.landmark_confidence = metrics.score

C4_Witness ==
    /\ "metrics" \in done
    /\ NoConfidenceFields(landmarks)
    /\ score = 8765
    /\ metrics.score < 10^3
    /\ metrics.landmark_confidence = 10^3

(* C5: build_mirrored_metrics returns the original pitch, the negated yaw  *)
(* and the negated roll, at 2 decimals, whatever the mirrored landmarks.   *)
C5_MirroredPose ==
    "mirrored_metrics" \in done =>
        /\ mirrored_metrics.pitch = metrics.pitch
        /\ mirrored_metrics.yaw = -metrics.yaw
        /\ mirrored_metrics.roll = -metrics.roll

C5_Witness ==
    /\ "mirrored_metrics" \in done
    /\ metrics.pitch # 0
    /\ metrics.yaw # 0
    /\ metrics.roll # 0
    /\ mirrored_metrics.yaw = -metrics.yaw
    /\ mirrored_metrics.nose_x # metrics.nose_x

(* The index whose landmark build_mirrored_landmarks puts at index i.      *)
Counterpart(i) ==
    CASE i = 33 -> 263 [] i = 263 -> 33
      [] i = 133 -> 362 [] i = 362 -> 133
      [] i = 61 -> 291 [] i = 291 -> 61
      [] i = 234 -> 454 [] i = 454 -> 234
      [] OTHER -> i

(* C6: build_mirrored_landmarks returns a list of the same length; the     *)
(* landmark at each index has x' = 1 - x and the y, z, visibility and      *)
(* presence of the input landmark of that index, or of its partner for the *)
(* indices of the pairs 33/263, 133/362, 61/291 and 234/454; the input     *)
(* list is as it was.                                                      *)
MirroredFromInput ==
    "mirrored_landmarks" \in done =>
        /\ Len(mirrored_landmarks) = Len(landmarks)
        /\ \A i \in 0..(Len(landmarks) - 1) :
               LET m == mirrored_landmarks[i + 1]
                   o == landmarks[Counterpart(i) + 1]
               IN  /\ m.x = CoordUnit - o.x
                   /\ m.y = o.y
                   /\ m.z = o.z
                   /\ m.visibility = o.visibility
                   /\ m.presence = o.presence

C6_MirroredLandmarks ==
    /\ []MirroredFromInput
    /\ [][landmarks' = landmarks]_vars

C6_Witness ==
    /\ "mirrored_landmarks" \in done
    /\ At(mirrored_landmarks, OVAL_L).x = CoordUnit - At(landmarks, OVAL_R).x
    /\ At(mirrored_landmarks, OVAL_L).x # CoordUnit - At(landmarks, OVAL_L).x
    /\ At(mirrored_landmarks, EYE_L_OUTER).visibility
           # At(landmarks, EYE_L_OUTER).visibility
    /\ At(mirrored_landmarks, NOSE_TIP).x # At(landmarks, NOSE_TIP).x

(* C7 as stated: for every landmark list holding index 454, mirroring the  *)
(* mirrored list gives back, at every index, the landmark of the original  *)
(* list: the same x, y, z, visibility and presence.                        *)
C7_Original ==
    "remirrored_landmarks" \in done => remirrored_landmarks = landmarks

(* C7, amended: for every landmark list holding index 454 with x in        *)
(* [0, 1], mirroring the mirrored list gives back a list of the same       *)
(* length whose landmark at every index has the y, z, visibility and       *)
(* presence of the original one, and its x when 1.0 - x is exact in        *)
(* floating point (every x in [0.5, 1]); otherwise x comes back within     *)
(* half a unit in the last place of 1.0 - x.                               *)
C7_InvolutionUpToRounding ==
    "remirrored_landmarks" \in done =>
        /\ Len(remirrored_landmarks) = Len(landmarks)
        /\ \A k \in 1..Len(landmarks) :
               LET r == remirrored_landmarks[k]
                   l == landmarks[k]
                   exact == FloatUnit - l.x
               IN  /\ r.y = l.y
                   /\ r.z = l.z
                   /\ r.visibility = l.visibility
                   /\ r.presence = l.presence
                   /\ 2 * l.x >= FloatUnit => r.x = l.x
                   /\ FSub(FloatUnit, l.x) = exact => r.x = l.x
                   /\ 2 * Abs(r.x - l.x) <= 2^Max2(BitLen(exact) - SigBits, 0)

(* An x below 0.5 that does not come back, beside one that does, in a list *)
(* whose mirror image moved the swapped pairs.                             *)
C7_Witness ==
    /\ "remirrored_landmarks" \in done
    /\ \E k \in 1..Len(landmarks) :
           /\ 2 * landmarks[k].x < FloatUnit
           /\ remirrored_landmarks[k].x # landmarks[k].x
    /\ \E k \in 1..Len(landmarks) :
           /\ 2 * landmarks[k].x < FloatUnit
           /\ landmarks[k].x > 0
           /\ remirrored_landmarks[k].x = landmarks[k].x
    /\ At(mirrored_landmarks, OVAL_R).visibility # At(landmarks, OVAL_R).visibility
    /\ At(remirrored_landmarks, OVAL_R) = At(landmarks, OVAL_R)

(* The planar distance between the landmarks of indices i and j.           *)
Planar(lms, i, j) ==
    SqrtSumSquares(lms[j + 1].x - lms[i + 1].x, lms[j + 1].y - lms[i + 1].y, 0, 2)

(* C8: src_scale_px is 0.55 * iodist_blend + 0.30 * oval_width +           *)
(* 0.15 * face_height rounded to 6 decimals, oval_width being the planar   *)
(* distance of landmarks 234 and 454 and face_height that of landmarks 10  *)
(* and 152; it is a function of x and y alone (no z, matrix or score), and *)
(* within 1e-6 of the same combination of the returned fields.             *)
C8_SrcScalePx ==
    "metrics" \in done =>
        LET inner == Planar(landmarks, 133, 362)
            outer == Planar(landmarks, 33, 263)
            oval_width == Planar(landmarks, 234, 454)
            face_height == Planar(landmarks, 10, 152)
        IN  /\ metrics.src_scale_px =
                   RoundDiv(33 * inner + 22 * outer + 30 * oval_width
                                + 15 * face_height,
                            10^3, tie_mode)
            /\ metrics.oval_width = RoundDiv(oval_width, 10, tie_mode)
            /\ metrics.face_height = RoundDiv(face_height, 10, tie_mode)
            /\ Abs(100 * metrics.src_scale_px
                       - (55 * metrics.iodist_blend + 30 * metrics.oval_width
                              + 15 * metrics.face_height)) <= 100

C8_Witness ==
    /\ "metrics" \in done
    /\ Truthy(matrix_data)
    /\ score # ConfUnit
    /\ At(landmarks, OVAL_L).z # At(landmarks, OVAL_R).z
    /\ At(landmarks, OVAL_L).y = At(landmarks, OVAL_R).y
    /\ metrics.src_scale_px > 0
    /\ metrics.oval_width # metrics.face_height

(* C9 as stated: iodist_blend always lies between min(inner, outer) and    *)
(* max(inner, outer), inner and outer being the planar distances of the    *)
(* inner (133, 362) and outer (33, 263) eye corners.                       *)
C9_Original ==
    "iodist" \in done =>
        /\ Min2(iodist.iodist_inner, iodist.iodist_outer) <= iodist.iodist_blend
        /\ iodist.iodist_blend <= Max2(iodist.iodist_inner, iodist.iodist_outer)

(* C9, amended: iodist_blend, before its rounding to 6 decimals, is        *)
(* 0.6 * inner + 0.4 * outer evaluated in floating point, inner and outer  *)
(* being the planar (x, y only) distances                                  *)
(* of the inner (133, 362) and outer (33, 263) eye corners; it lies        *)
(* between min(inner, outer) and max(inner, outer) when the two differ by  *)
(* at least 16 units in the last place of the larger, and within 3 such    *)
(* units of that range in every case (inner = outer included, where it     *)
(* need not equal them).                                                   *)
C9_BlendWithinRounding ==
    "iodist" \in done =>
        LET dxi == FSub(landmarks[363].x, landmarks[134].x)
            dyi == FSub(landmarks[363].y, landmarks[134].y)
            dxo == FSub(landmarks[264].x, landmarks[34].x)
            dyo == FSub(landmarks[264].y, landmarks[34].y)
            inner == FSqrt(FAdd(FMul(dxi, dxi), FMul(dyi, dyi)))
            outer == FSqrt(FAdd(FMul(dxo, dxo), FMul(dyo, dyo)))
            lo == Min2(inner, outer)
            hi == Max2(inner, outer)
            blend == iodist.iodist_blend
        IN  /\ iodist.iodist_inner = inner
            /\ iodist.iodist_outer = outer
            /\ blend = FAdd(FMul(FloatOfTenths(6), inner),
                            FMul(FloatOfTenths(4), outer))
            /\ hi - lo >= 16 * Ulp(hi) => (lo <= blend /\ blend <= hi)
            /\ lo - 3 * Ulp(hi) <= blend
            /\ blend <= hi + 3 * Ulp(hi)

(* Equal distances whose blend is not that distance, the corners differing *)
(* in z.                                                                   *)
C9_Witness ==
    /\ "iodist" \in done
    /\ iodist.iodist_inner = iodist.iodist_outer
    /\ iodist.iodist_inner > 0
    /\ iodist.iodist_blend # iodist.iodist_inner
    /\ At(landmarks, EYE_R_INNER).z # At(landmarks, EYE_L_INNER).z

FaceMetricsCoordinates ==
    {"center_x", "center_y", "nose_x", "nose_y", "eye_l_x", "eye_l_y",
     "eye_r_x", "eye_r_y", "mouth_l_x", "mouth_l_y", "mouth_r_x", "mouth_r_y",
     "eye_li_x", "eye_li_y", "eye_ri_x", "eye_ri_y", "chin_x", "chin_y",
     "oval_l_x", "oval_l_y", "oval_r_x", "oval_r_y", "forehead_x", "forehead_y"}

FaceMetricsDistances ==
    {"face_scale", "interocular_dist", "iodist_inner", "iodist_blend",
     "eye_mouth_dist", "oval_width", "face_height", "src_scale_px",
     "nose_eye_dist", "face_width"}

CoordinatesInUnit(m) == \A f \in FaceMetricsCoordinates : 0 <= m[f] /\ m[f] <= 10^4

DistancesNonNegative(m) == \A f \in FaceMetricsDistances : m[f] >= 0

BoxInUnit(x) ==
    /\ \A f \in {"rbX", "rbY", "rbW", "rbH"} : 0 <= x[f] /\ x[f] <= 10^3
    /\ x.rbX + x.rbW <= 10^3
    /\ x.rbY + x.rbH <= 10^3

InUnitSquare(lms) ==
    \A k \in 1..Len(lms) :
        /\ 0 <= lms[k].x /\ lms[k].x <= CoordUnit
        /\ 0 <= lms[k].y /\ lms[k].y <= CoordUnit

(* C10 as stated: for every landmark set, every x/y field of FaceMetrics   *)
(* and every region value rbX, rbY, rbW, rbH written by generate_xmp lies  *)
(* in [0, 1], with rbX + rbW <= 1 and rbY + rbH <= 1, and every distance   *)
(* field is non-negative; the same for the mirrored landmarks.             *)
C10_Original ==
    /\ "xmp" \in done =>
           /\ CoordinatesInUnit(metrics)
           /\ DistancesNonNegative(metrics)
           /\ BoxInUnit(xmp)
    /\ "mirrored_xmp" \in done =>
           /\ CoordinatesInUnit(mirrored_metrics)
           /\ DistancesNonNegative(mirrored_metrics)
           /\ BoxInUnit(mirrored_xmp)

(* Landmarks inside the image, from x = 0.2 to x = 0.998, whose region is  *)
(* written as rbX = 0.001 and rbW = 1.000.                                 *)
C10_FailingInput ==
    /\ "xmp" \in done
    /\ InUnitSquare(landmarks)
    /\ SeqMin(XCoords(landmarks)) = 20000
    /\ SeqMax(XCoords(landmarks)) = 99800
    /\ xmp.rbX = 1
    /\ xmp.rbW = 10^3

(* The unrounded value of every field of FaceMetrics with the size of its  *)
(* unit: the value is num / per.                                           *)
Unrounded(lms, matrix, sc) ==
    LET pose == PoseFromMatrix(matrix).angles
        conf == LandmarkConfidence(lms, sc)
        C(v) == [num |-> v, per |-> CoordUnit]
        D(v) == [num |-> v, per |-> DistUnit]
        A(v) == [num |-> v, per |-> AngleUnit]
    IN  [pitch |-> A(pose.pitch), yaw |-> A(pose.yaw), roll |-> A(pose.roll),
         center_x |-> C(lms[34].x), center_y |-> C(lms[34].y),
         face_width |-> C(RawBw(lms)),
         face_scale |-> D(FaceScale(lms)),
         interocular_dist |-> D(IodistOuter(lms)),
         nose_x |-> C(lms[2].x), nose_y |-> C(lms[2].y),
         eye_l_x |-> C(lms[34].x), eye_l_y |-> C(lms[34].y),
         eye_r_x |-> C(lms[264].x), eye_r_y |-> C(lms[264].y),
         mouth_l_x |-> C(lms[62].x), mouth_l_y |-> C(lms[62].y),
         mouth_r_x |-> C(lms[292].x), mouth_r_y |-> C(lms[292].y),
         eye_li_x |-> C(lms[134].x), eye_li_y |-> C(lms[134].y),
         eye_ri_x |-> C(lms[363].x), eye_ri_y |-> C(lms[363].y),
         iodist_inner |-> D(IodistInner(lms)),
         iodist_blend |-> [num |-> IodistBlend(lms), per |-> BlendUnit],
         eye_mouth_dist |-> D(EyeMouthDist(lms)),
         chin_x |-> C(lms[153].x), chin_y |-> C(lms[153].y),
         oval_l_x |-> C(lms[235].x), oval_l_y |-> C(lms[235].y),
         oval_r_x |-> C(lms[455].x), oval_r_y |-> C(lms[455].y),
         oval_width |-> D(OvalWidth(lms)),
         forehead_x |-> C(lms[11].x), forehead_y |-> C(lms[11].y),
         face_height |-> D(FaceHeight(lms)),
         src_scale_px |-> [num |-> SrcScalePx(lms), per |-> SrcScaleUnit],
         nose_eye_dist |-> D(NoseEyeDist(lms)),
         landmark_confidence |-> [num |-> conf.num, per |-> conf.den * ConfUnit],
         score |-> [num |-> sc, per |-> ConfUnit]]

(* The decimals the fields are to have: angles 2, confidence and score 3,  *)
(* coordinates and face_width 4, distances 6.                              *)
DeclaredDecimals(f) ==
    CASE f \in {"pitch", "yaw", "roll"} -> 2
      [] f \in {"landmark_confidence", "score"} -> 3
      [] f \in FaceMetricsCoordinates \cup {"face_width"} -> 4
      [] OTHER -> 6

(* |rounded - unrounded| <= 0.5 * 10^-p, rounded a count of 10^-p          *)
WithinHalfUnit(rounded, unrounded, p) ==
    2 * Abs(rounded * (unrounded.per \div 10^p) - unrounded.num)
        <= unrounded.per \div 10^p

C12_IdentityZeroPose ==
    ("metrics" \in done
        /\ matrix_data.present
        /\ Len(matrix_data.floats) = 16
        /\ \A k \in 1..16 :
               matrix_data.floats[k] = (IF k \in {1, 6, 11, 16} THEN MatUnit ELSE 0))
    =>  /\ metrics.pitch = 0
        /\ metrics.yaw = 0
        /\ metrics.roll = 0
        /\ euler_calls = 1

C12_Witness ==
    /\ "metrics" \in done
    /\ matrix_data = Bytes(Identity4x4)
    /\ euler_calls = 1
    /\ metrics.pitch = 0
    /\ ~InUnitSquare(landmarks)
    /\ score = 8765

(* What write_xmp_to_source leaves of the bytes it found: a prefix and the *)
(* rest, in that order, with the new bytes between them.                   *)
OriginalBytesKept(before, after) ==
    \E k \in 0..Len(before) :
        /\ Len(after) >= Len(before)
        /\ SubSeq(after, 1, k) = SubSeq(before, 1, k)
        /\ SubSeq(after, Len(after) - (Len(before) - k) + 1, Len(after))
               = SubSeq(before, k + 1, Len(before))

(* One APP1 segment right after the SOI.                                   *)
SplicedAfterSOI(before, after, packet) ==
    LET seg_len == 2 + Len(XmpMarker) + Len(packet)
    IN  /\ Len(after) = Len(before) + 2 + seg_len
        /\ SubSeq(after, 1, 2) = SOI
        /\ SubSeq(after, 3, 4) = <<255, 225>>
        /\ 256 * after[5] + after[6] = seg_len
        /\ after[5] \in 0..255 /\ after[6] \in 0..255
        /\ SubSeq(after, 7, 6 + Len(XmpMarker)) = XmpMarker
        /\ SubSeq(after, 7 + Len(XmpMarker), 4 + seg_len) = packet
        /\ SubSeq(after, 5 + seg_len, Len(after)) = SubSeq(before, 3, Len(before))

AppendedAsTrailer(before, after, packet) ==
    after = before \o XmpMarker \o packet

JpegWithSOI ==
    /\ Lower(image_file.suffix) \in JpegSuffixes
    /\ Len(write_log.before) >= 2
    /\ write_log.before[1] = 255
    /\ write_log.before[2] = 216

(* The claim as the specification states it: every .jpg/.jpeg that starts  *)
(* with FF D8 gets the APP1 segment, every other file the trailer, one of  *)
(* the two in each call.                                                   *)
C13_Original ==
    "write" \in done =>
        /\ write_log.inject # write_log.append
        /\ OriginalBytesKept(write_log.before, image_file.data)
        /\ Encodable(xmp_str) =>
              IF JpegWithSOI
              THEN SplicedAfterSOI(write_log.before, image_file.data, Utf8(xmp_str))
              ELSE AppendedAsTrailer(write_log.before, image_file.data, Utf8(xmp_str))

(* C13: on a file that can be read and written, with an XMP string that    *)
(* encodes to UTF-8, write_xmp_to_source splices one APP1 segment right    *)
(* after the SOI when the file is a .jpg/.jpeg starting with FF D8 and the *)
(* encoded XMP is at most 65504 bytes, and appends marker + XMP as a       *)
(* trailer in every other case; exactly one of the two is applied and the  *)
(* original bytes stay, unchanged and in order.  Otherwise neither is      *)
(* applied and the bytes are as they were.                                 *)
C13_SpliceOrAppend ==
    "write" \in done =>
        IF image_file.readable /\ image_file.writable /\ Encodable(xmp_str)
        THEN LET packet == Utf8(xmp_str)
             IN  /\ write_log.inject # write_log.append
                 /\ OriginalBytesKept(write_log.before, image_file.data)
                 /\ Len(image_file.data) > Len(write_log.before)
                 /\ IF JpegWithSOI /\ Len(packet) <= 65504
                    THEN /\ write_log.inject
                         /\ SplicedAfterSOI(write_log.before, image_file.data,
                                            packet)
                    ELSE /\ write_log.append
                         /\ AppendedAsTrailer(write_log.before, image_file.data,
                                              packet)
        ELSE /\ ~write_log.inject
             /\ ~write_log.append
             /\ image_file.data = write_log.before

C13_Witness ==
    /\ "write" \in done
    /\ write_log.inject
    /\ image_file.suffix = <<46, 106, 112, 101, 103>>
    /\ Len(write_log.before) > 2
    /\ Len(Utf8(xmp_str)) = 65504
    /\ Len(image_file.data) = Len(write_log.before) + 65537

(* a sorts before b as strings: b continues a, or the first character      *)
(* that differs is smaller in a.                                           *)
StrictlyBefore(a, b) ==
    \E k \in 1..Len(b) :
        /\ \A i \in 1..(k - 1) : i <= Len(a) /\ a[i] = b[i]
        /\ k = Len(a) + 1 \/ (k <= Len(a) /\ a[k] < b[k])

Ascending(paths) ==
    \A i \in 1..Len(paths) : \A j \in 1..Len(paths) :
        i < j => StrictlyBefore(paths[i], paths[j])

(* C14: a run of main is one sequential pass.  The k-th process_image call *)
(* is on the k-th file of the list, the list is in strictly ascending path *)
(* order (so no file is passed twice), report.total_images counts the      *)
(* calls, and the count printed at the end is that number.                 *)
C14_SinglePass ==
    pc \in {"loop", "done"} =>
        /\ Ascending(files)
        /\ Len(calls) = count
        /\ Len(calls) <= Len(files)
        /\ \A k \in 1..Len(calls) : calls[k].path = files[k]
        /\ report.total_images = Len(calls)
        /\ pc = "done" =>
              /\ printed = Len(calls)
              /\ unusable.totalImagesProcessed = Len(calls)

C14_Witness ==
    /\ pc = "done"
    /\ printed = 4
    /\ report.total_images = 4
    /\ calls[1].path = PathB
    /\ calls[2].path = PathA
    /\ calls[4].path = PathC

LastCall == calls[Len(calls)]

(* The file of the last call as the call found it.                         *)
FileBeforeCall == before_call.in_dir[LastCall.path]

(* C15: with --only-missing every image passed to process_image lacks a    *)
(* required pose tag when it is passed, whether the list came from the     *)
(* missing-pose report or from the directory scan.                         *)
C15_Original ==
    (pc \in {"loop", "done"} /\ args.only_missing /\ calls # <<>>) =>
        ~has_required_pose_xmp(FileBeforeCall)

(* The run that refutes it: a report that still lists in/a.jpg after an    *)
(* earlier run wrote its XMP; the second run splices a second block.       *)
C15_FailingInput ==
    /\ runs = 2
    /\ args.only_missing
    /\ calls # <<>>
    /\ LastCall.path = PathA
    /\ LastCall.outcome = "written"
    /\ has_required_pose_xmp(FileBeforeCall)
    /\ Len(FileBeforeCall.blocks) = 1
    /\ Len(in_dir[PathA].blocks) = 2

(* The files of the list that --limit leaves out.                          *)
BeyondLimit ==
    IF args.limit > 0
    THEN {files[k] : k \in (args.limit + 1)..Len(files)}
    ELSE {}

FirstFilesProcessed ==
    /\ \A k \in 1..Len(calls) : calls[k].path = files[k]
    /\ pc = "done" =>
          Len(calls) = (IF args.limit > 0 THEN Min2(args.limit, Len(files))
                        ELSE Len(files))

(* The claim as the specification states it: no file after the first N is  *)
(* read or modified.                                                       *)
C16_Original ==
    pc \in {"loop", "done"} =>
        /\ FirstFilesProcessed
        /\ \A read \in reads : read.path \notin BeyondLimit

(* C16: with --limit N > 0 exactly min(N, number of selected files) images *)
(* are passed to process_image, the first ones in sorted order, and with   *)
(* N = 0 every selected file; no file after the first N is passed to       *)
(* process_image or modified.  Such a file is read only by                 *)
(* has_required_pose_xmp, when --only-missing selects by scanning.         *)
C16_LimitBoundsCalls ==
    /\ [](pc \in {"loop", "done"} =>
            /\ FirstFilesProcessed
            /\ \A read \in reads :
                   read.path \in BeyondLimit =>
                       /\ read.by = "has_required_pose_xmp"
                       /\ args.only_missing)
    /\ [][pc = "loop" =>
             \A p \in BeyondLimit :
                 p \in DOMAIN in_dir => (p \in DOMAIN in_dir' /\ in_dir'[p] = in_dir[p])]_vars

C16_Witness ==
    /\ pc = "done"
    /\ args.limit = 1
    /\ args.only_missing
    /\ Len(files) = 3
    /\ Len(calls) = 1
    /\ LastCall.path = PathB
    /\ files[3] = PathC
    /\ [path |-> PathC, by |-> "has_required_pose_xmp"] \in reads
    /\ in_dir[PathC] = DiskA[PathC]

(* The stem ends in "_mirror".                                             *)
IsMirrorStem(path) ==
    \E k \in 0..Len(Stem(path)) :
        Stem(path) = SubSeq(Stem(path), 1, k) \o <<95, 109, 105, 114, 114, 111, 114>>

IsMirrorOfMirror(path) ==
    \E k \in 0..Len(Stem(path)) :
        Stem(path) = SubSeq(Stem(path), 1, k)
                        \o <<95, 109, 105, 114, 114, 111, 114>>
                        \o <<95, 109, 105, 114, 114, 111, 114>>

(* The mirrored source and WebP of a written image are there, the source   *)
(* carrying an XMP block with the pitch of the original's and the opposite *)
(* yaw.                                                                    *)
MirrorEmitted(path) ==
    LET source == in_dir[path]
        source_xmp == source.blocks[Len(source.blocks)].xmp
        mirror_path == Take(path, LastIndexOf(path, 47)) \o Stem(path)
                          \o <<95, 109, 105, 114, 114, 111, 114>> \o Suffix(path)
        mirror_webp == Stem(path) \o <<95, 109, 105, 114, 114, 111, 114>>
                          \o <<46, 119, 101, 98, 112>>
    IN  /\ mirror_path \in DOMAIN in_dir
        /\ Len(in_dir[mirror_path].blocks) = 1
        /\ LET mirror_xmp == in_dir[mirror_path].blocks[1].xmp
           IN  /\ mirror_xmp.text.pitch = source_xmp.text.pitch
               /\ mirror_xmp.text.yaw.whole = source_xmp.text.yaw.whole
               /\ mirror_xmp.text.yaw.fraction = source_xmp.text.yaw.fraction
               /\ mirror_xmp.text.yaw.negative # source_xmp.text.yaw.negative
               /\ mirror_xmp.text.roll.negative # source_xmp.text.roll.negative
        /\ mirror_webp \in DOMAIN out_dir
        /\ out_dir[mirror_webp].mirrored

(* C17: with --mirror every image whose XMP was written, whose stem does   *)
(* not end in "_mirror" and whose cv2 calls succeeded has its mirrored     *)
(* source with mirrored XMP and its mirrored WebP; no file whose stem ends *)
(* in "_mirror" is in the file list, from the scan or from the report; and *)
(* over the runs no "_mirror_mirror" file appears.                         *)
C17_MirrorOnce ==
    pc \in {"loop", "done"} =>
        /\ \A k \in 1..Len(files) : ~IsMirrorStem(files[k])
        /\ \A p \in DOMAIN in_dir \cup DOMAIN out_dir : ~IsMirrorOfMirror(p)
        /\ \A k \in 1..Len(calls) :
               (/\ args.mirror
                /\ calls[k].outcome = "written"
                /\ in_dir[calls[k].path].writable
                /\ in_dir[calls[k].path].image.cv2 = "ok")
               => MirrorEmitted(calls[k].path)

C17_Witness ==
    /\ runs = 2
    /\ pc = "done"
    /\ args.mirror
    /\ args.only_missing
    /\ Len(calls) = 2
    /\ calls[1].path = PathA
    /\ calls[1].outcome = "written"
    /\ Len(in_dir[PathA].blocks) = 2
    /\ PathAMirror \in DOMAIN in_dir
    /\ Len(in_dir[PathAMirror].blocks) = 1

(* C18: a call that reached compute_face_metrics skips the image exactly   *)
(* when the landmark confidence, rounded to 3 decimals, is below 0.75; the *)
(* path then goes to low_confidence and not to no_face, and no file is     *)
(* written; with 0.75 or more low_confidence stays as it was.              *)
C18_LowConfidenceSkipped ==
    (pc \in {"loop", "done"} /\ calls # <<>>
        /\ FileBeforeCall.readable /\ FileBeforeCall.image.kind = "face")
    =>  LET face == DetectedLandmarks(FileBeforeCall.image.conf)
            thousandths ==
                compute_face_metrics(face, DetectedMatrix, ConfUnit, tie_mode)
                    .landmark_confidence
        IN  IF thousandths < 750
            THEN /\ LastCall.outcome = "low_confidence"
                 /\ report.low_confidence
                        = Append(before_call.report.low_confidence, LastCall.path)
                 /\ report.no_face = before_call.report.no_face
                 /\ in_dir = before_call.in_dir
                 /\ out_dir = before_call.out_dir
            ELSE /\ LastCall.outcome = "written"
                 /\ report.low_confidence = before_call.report.low_confidence
                 /\ report.no_face = before_call.report.no_face

C18_Witness ==
    /\ pc = "loop"
    /\ calls # <<>>
    /\ LastCall.path = PathB
    /\ LastCall.outcome = "low_confidence"
    /\ FileBeforeCall.image.conf = 4990
    /\ tie_mode = "down"
    /\ args.mirror
    /\ report.low_confidence = <<PathB>>

(* The paths of the report relative to the input directory.                *)
RelativeCandidates ==
    {c \in Range(unusable.deletionCandidates) :
        InDir \o c \in Range(report.no_face) \cup Range(report.low_confidence)}

(* C20: the deletion candidates of the unusable-image report are the       *)
(* sorted, duplicate-free union of the no-face and low-confidence paths,   *)
(* counted by deletionCandidateCount, at most noFaceCount +                *)
(* lowConfidenceCount; no image whose XMP was written in the run, source   *)
(* or mirror, is among them.                                               *)
C20_DeletionCandidates ==
    pc = "done" =>
        /\ Ascending(unusable.deletionCandidates)
        /\ RelativeCandidates = Range(unusable.deletionCandidates)
        /\ \A p \in Range(report.no_face) \cup Range(report.low_confidence) :
               \E c \in Range(unusable.deletionCandidates) : InDir \o c = p
        /\ unusable.deletionCandidateCount = Len(unusable.deletionCandidates)
        /\ unusable.deletionCandidateCount
               <= unusable.noFaceCount + unusable.lowConfidenceCount
        /\ unusable.noFaceCount = Cardinality(Range(report.no_face))
        /\ unusable.lowConfidenceCount = Cardinality(Range(report.low_confidence))
        /\ \A k \in 1..Len(calls) :
               calls[k].outcome = "written" =>
                   \A c \in Range(unusable.deletionCandidates) :
                       /\ InDir \o c # calls[k].path
                       /\ InDir \o c # MirrorPath(calls[k].path)

C20_Witness ==
    /\ pc = "done"
    /\ unusable.deletionCandidateCount = 3
    /\ unusable.noFaceCount = 2
    /\ unusable.lowConfidenceCount = 1
    /\ \E k \in 1..Len(calls) : calls[k].outcome = "written"

Disjoint(s, t) == Range(s) \cap Range(t) = {}

RECURSIVE SumCounts(_)
SumCounts(items) ==
    IF items = <<>> THEN 0 ELSE Head(items)[2] + SumCounts(Tail(items))

(* What one call adds to no_face and low_confidence: the path to one of    *)
(* them, or nothing.                                                       *)
OneListOrNeither ==
    calls # <<>> =>
        \/ /\ report.no_face = Append(before_call.report.no_face, LastCall.path)
           /\ report.low_confidence = before_call.report.low_confidence
        \/ /\ report.no_face = before_call.report.no_face
           /\ report.low_confidence
                  = Append(before_call.report.low_confidence, LastCall.path)
        \/ /\ report.no_face = before_call.report.no_face
           /\ report.low_confidence = before_call.report.low_confidence
           /\ LastCall.outcome = "written"

CausesInNoFace ==
    /\ Range(report.mediapipe_no_face) \subseteq Range(report.no_face)
    /\ Range(report.missing_matrix) \subseteq Range(report.no_face)
    /\ Range(report.mediapipe_errors) \subseteq Range(report.no_face)

CausesDisjoint ==
    /\ Disjoint(report.mediapipe_no_face, report.missing_matrix)
    /\ Disjoint(report.mediapipe_no_face, report.mediapipe_errors)
    /\ Disjoint(report.missing_matrix, report.mediapipe_errors)

(* The claim as the specification states it, the three lists pairwise      *)
(* disjoint after any sequence of calls.                                   *)
C19_Original ==
    /\ report.total_images = Len(calls)
    /\ OneListOrNeither
    /\ CausesInNoFace
    /\ CausesDisjoint
    /\ SumCounts(report.error_types) = Len(report.mediapipe_errors)

(* C19: after any sequence of process_image calls on one DetectionReport   *)
(* total_images is the number of calls; each call puts the path in exactly *)
(* one of no_face and low_confidence, or in neither; every entry of        *)
(* mediapipe_no_face, missing_matrix and mediapipe_errors is in no_face,   *)
(* each call adding to at most one of the three; the three are pairwise    *)
(* disjoint when no path was passed twice; the error_types counts sum to   *)
(* len(mediapipe_errors).                                                  *)
C19_ReportInvariants ==
    /\ report.total_images = Len(calls)
    /\ OneListOrNeither
    /\ CausesInNoFace
    /\ Len(report.mediapipe_no_face) + Len(report.missing_matrix)
           + Len(report.mediapipe_errors) <= Len(report.no_face)
    /\ Len(report.no_face) + Len(report.low_confidence) <= Len(calls)
    /\ (\A i \in 1..Len(calls) : \A j \in 1..Len(calls) :
            i # j => calls[i].path # calls[j].path)
       => CausesDisjoint
    /\ SumCounts(report.error_types) = Len(report.mediapipe_errors)
    /\ \A i \in 1..Len(report.error_types) : \A j \in 1..Len(report.error_types) :
           i # j => report.error_types[i][1] # report.error_types[j][1]

C19_Witness ==
    /\ Len(calls) = 3
    /\ calls[1].path = PathBWebp
    /\ calls[1].outcome = "detector_unavailable"
    /\ calls[2].path = PathBWebp
    /\ calls[2].outcome = "mediapipe_no_face"
    /\ calls[3].outcome = "detector_unavailable"
    /\ report.error_types = << <<"detector_unavailable", 2>> >>
    /\ report.mediapipe_errors = <<PathBWebp, calls[3].path>>
    /\ report.mediapipe_no_face = <<PathBWebp>>

StartsWithSOI(data) == Len(data) >= 2 /\ data[1] = 255 /\ data[2] = 216

(* Nothing stands in the way of the write: the file can be read and        *)
(* written and the string encodes to UTF-8.                                *)
CanAppend == image_file.readable /\ image_file.writable /\ Encodable(xmp_str)

(* C21: inject_xmp and append_xmp_payload never raise; each returns False  *)
(* exactly when a step of it failed (for inject_xmp also when the bytes do *)
(* not start with FF D8 or the segment is too long), and then the file is  *)
(* byte-identical.  In write_xmp_to_source a .jpg/.jpeg whose bytes do not *)
(* start with FF D8 is handed to append_xmp_payload, which appends the     *)
(* trailer when it can; write_xmp_to_source never raises and prints its    *)
(* failure line exactly when neither writer succeeded.                     *)
C21_FailuresReturnFalse ==
    /\ "inject" \in done =>
          /\ write_log.raised = None
          /\ write_log.inject <=>
                 /\ CanAppend
                 /\ StartsWithSOI(write_log.before)
                 /\ Len(Utf8(xmp_str)) <= MaxPacket
          /\ ~write_log.inject => image_file.data = write_log.before
          /\ write_log.inject => image_file.data # write_log.before
    /\ "append" \in done =>
          /\ write_log.raised = None
          /\ write_log.append <=> CanAppend
          /\ ~write_log.append => image_file.data = write_log.before
          /\ write_log.append => image_file.data # write_log.before
    /\ "write" \in done =>
          /\ write_log.raised = None
          /\ write_log.failed <=> (~write_log.inject /\ ~write_log.append)
          /\ write_log.failed => image_file.data = write_log.before
          /\ (Lower(image_file.suffix) \in JpegSuffixes
                 /\ ~StartsWithSOI(write_log.before)) =>
                 /\ ~write_log.inject
                 /\ write_log.append <=> CanAppend
                 /\ write_log.append =>
                        image_file.data
                            = write_log.before \o XmpMarker \o Utf8(xmp_str)

C21_Witness ==
    /\ "write" \in done
    /\ image_file.suffix = <<46, 74, 80, 71>>
    /\ write_log.before = <<216, 255, 255, 224, 0, 16>>
    /\ ~write_log.inject
    /\ write_log.append
    /\ ~write_log.failed
    /\ xmp_str = <<60, 120, 47, 62>>
    /\ Len(image_file.data) = Len(write_log.before) + Len(XmpMarker) + 4

(* The image of the last call, and what its first detection pass gave.     *)
LastImage == FileBeforeCall.image

FirstLandmarks == DetectedLandmarks(LastImage.conf)

ReachedMetrics ==
    /\ pc \in {"loop", "done"}
    /\ calls # <<>>
    /\ LastCall.outcome \in {"low_confidence", "written"}

(* The second pass raised, found no face or gave no transform.             *)
SecondPassFailed ==
    LastImage.upscaled.kind \in {"raises", "no_face", "no_matrix"}

(* The last call made again from the same state with averaging off.        *)
LastCallWithoutAveraging ==
    process_image("FaceLandmarker", LastCall.path, before_call.in_dir,
                  before_call.out_dir, before_call.report, FALSE, args.mirror,
                  tie_mode)

FirstPassConfident ==
    compute_face_metrics(FirstLandmarks, DetectedMatrix, ConfUnit,
                         tie_mode).landmark_confidence * (ConfUnit \div 10^3)
        >= MIN_LANDMARK_CONFIDENCE

(* C22: main enables averaging exactly when --only-missing is not given.   *)
(* When averaging is enabled and the second pass raises, finds no face or  *)
(* gives no transform, process_image passes the first pass's landmarks and *)
(* transform to compute_face_metrics, adds nothing to the error lists of   *)
(* the report, and leaves the directories and the report as the same call  *)
(* without averaging does: the XMP is written whenever the first pass's    *)
(* confidence reaches the threshold.                                       *)
C22_AveragingFallback ==
    (pc \in {"loop", "done"} /\ calls # <<>>) =>
        /\ \A i \in 1..Len(calls) :
               calls[i].use_landmark_averaging = ~args.only_missing
        /\ (ReachedMetrics /\ LastCall.use_landmark_averaging /\ SecondPassFailed) =>
               /\ landmarks = FirstLandmarks
               /\ matrix_data = DetectedMatrix
               /\ report.no_face = before_call.report.no_face
               /\ report.mediapipe_errors = before_call.report.mediapipe_errors
               /\ report.mediapipe_no_face = before_call.report.mediapipe_no_face
               /\ report.missing_matrix = before_call.report.missing_matrix
               /\ report.error_types = before_call.report.error_types
               /\ report = LastCallWithoutAveraging.report
               /\ in_dir = LastCallWithoutAveraging.in_dir
               /\ out_dir = LastCallWithoutAveraging.out_dir
               /\ FirstPassConfident =>
                      /\ LastCall.outcome = "written"
                      /\ report.low_confidence = before_call.report.low_confidence
                      /\ FileBeforeCall.writable =>
                             Len(in_dir[LastCall.path].blocks)
                                 = Len(FileBeforeCall.blocks) + 1

C22_Witness ==
    /\ pc = "loop"
    /\ ~args.only_missing
    /\ Len(calls) = 2
    /\ LastCall.path = PathA
    /\ LastCall.use_landmark_averaging
    /\ LastCall.outcome = "written"
    /\ FileBeforeCall.image.upscaled.kind = "raises"
    /\ landmarks = DetectedLandmarks(9000)
    /\ matrix_data = DetectedMatrix
    /\ Len(in_dir[PathA].blocks) = 1
    /\ report.low_confidence = <<PathB>>
    /\ report.no_face = <<>>

(* avg is the element-wise average of p and s, to the unit of the model.   *)
AverageOf(avg, p, s) == Abs(2 * avg - (p + s)) <= 1

LandmarksAveraged(avg, p, s) ==
    /\ Len(avg) = Len(p)
    /\ Len(s) = Len(p)
    /\ \A k \in 1..Len(p) :
           /\ AverageOf(avg[k].x, p[k].x, s[k].x)
           /\ AverageOf(avg[k].y, p[k].y, s[k].y)
           /\ AverageOf(avg[k].z, p[k].z, s[k].z)
           /\ AverageOf(avg[k].visibility, p[k].visibility, s[k].visibility)
           /\ AverageOf(avg[k].presence, p[k].presence, s[k].presence)

MatrixAveraged(avg, p, s) ==
    /\ avg.present
    /\ Len(avg.floats) = 16
    /\ Len(s.floats) = 16
    /\ \A k \in 1..16 : AverageOf(avg.floats[k], p.floats[k], s.floats[k])

(* C23, as the specification states it: the landmarks and the transform    *)
(* passed to compute_face_metrics are both those of the first pass, or     *)
(* both the element-wise averages of the two passes.                       *)
C23_Original ==
    ReachedMetrics =>
        \/ /\ landmarks = FirstLandmarks
           /\ matrix_data = DetectedMatrix
        \/ LET upscaled_result == UpscaledResult(LastImage)
           IN  /\ upscaled_result.face_landmarks # <<>>
               /\ upscaled_result.facial_transformation_matrixes # <<>>
               /\ LandmarksAveraged(landmarks, FirstLandmarks,
                                    upscaled_result.face_landmarks[1])
               /\ MatrixAveraged(matrix_data, DetectedMatrix,
                                 upscaled_result.facial_transformation_matrixes[1])

(* The second pass returns one landmark less than the first: the first     *)
(* pass's landmarks meet the averaged transform, and the XMP is written.   *)
C23_FailingInput ==
    /\ ReachedMetrics
    /\ LastCall.path = PathAJpeg
    /\ LastCall.use_landmark_averaging
    /\ LastImage.upscaled.kind = "shorter"
    /\ landmarks = FirstLandmarks
    /\ matrix_data # DetectedMatrix
    /\ MatrixAveraged(matrix_data, DetectedMatrix, UpscaledMatrix)
    /\ LastCall.outcome = "written"
    /\ Len(in_dir[PathAJpeg].blocks) = 1

=============================================================================
